---- MODULE Spec2Model ----
(***************************************************************************)
(* Memory-reclamation engines of the repository, as state machines.        *)
(*                                                                         *)
(*   Spec      the simple Hyaline engine        (src/HyalineSGL.cpp)       *)
(*   SpecRC    the per-node refCount variant    (src/hyaline.cpp)          *)
(*   SpecSnap  the snapshot-count variant       (src/sgl.cpp)              *)
(*   SpecIBR   the IBR manager                  (src/ibr.cpp)              *)
(*   SpecHy    any one of the three Hyaline engines                        *)
(*   SpecRetire   enter and retire only, no sweep                          *)
(*   SpecIBRTick  the IBR manager with an external epoch tick              *)
(*   SpecS     the Hyaline-S functions          (src/HyalineS_SGL.cpp)     *)
(*   SpecSTick    Hyaline-S readers with an era clock                      *)
(*   SpecDown     either engine with its teardown                          *)
(*   SpecRange    the simple engine, slot ids out of range                 *)
(*   SpecRetireFair  retires to one slot under a fair scheduler            *)
(*   SpecTree  the BonsaiTree harness over the IBR manager (src/ibr.cpp)   *)
(*   SpecBatch    Hyaline-S retire on batches with a preset refCounter     *)
(*   SpecAnyHandle   Hyaline leave called with an arbitrary handle         *)
(*   SpecClean    workers, then main's clean-up (src/hyaline_bonsai.cpp)   *)
(*   SpecCleanFair   the same with main scheduled fairly                   *)
(*   SpecNat   the NatarajanTree over the IBR manager (ibrNatarajan.cpp)  *)
(*                                                                         *)
(* Every atomic load, store, fetch_add, fetch_sub and compare_exchange of  *)
(* the source is one step of the thread that executes it; the steps of     *)
(* different threads interleave freely (sequentially consistent memory,    *)
(* the strongest reading of the source's orderings).  Thread-local work    *)
(* between two shared accesses is folded into the step that follows it.    *)
(*                                                                         *)
(* The clients are arbitrary: any thread may enter any slot, retire fresh  *)
(* records while inside, and leave the slot it entered.  A record is       *)
(* retired at most once (the container's obligation).                      *)
(*                                                                         *)
(* Freed memory is not handed out again during a run: a record keeps its   *)
(* identity after delete, its delete count is kept (saturating at 2), and  *)
(* a read of a freed record's link or count yields any value of the type.  *)
(* The order in which threads and slots are first used is fixed, which     *)
(* only removes states that differ by a renaming of threads or slots.      *)
(***************************************************************************)
EXTENDS Integers, Sequences, FiniteSets, TLC

\* ---------------------------------------------------------------- bounds
NumThreads == 3
NumSlots == 2
NumRecords == 3
\* total number of enter calls (Hyaline) or start_op calls (IBR) in a run
MaxEnters == 3
\* largest value the IBR global epoch is advanced to
MaxEpoch == 3
\* largest value the Hyaline-S era is advanced to
MaxEra == 2
\* largest value the tree's insert and remove are called with
MaxValue == 2
\* largest refCounter a batch is handed to Hyaline-S retire with
MaxRef == 2
\* keys of the NatarajanTree: 1 .. MaxKey
MaxKey == 3
\* enter calls of main's clean-up loop on one slot that the model follows
MaxCleanEnters == 3

Threads == 1 .. NumThreads
Slots == 0 .. (NumSlots - 1)
Records == 1 .. NumRecords

\* nullptr
NULL == 0
\* "no slot": the value of a slot-valued variable that is not set
NoSlot == NumSlots
\* local_epoch of a thread outside an operation; retire_epoch of a live node
Inactive == -1

Ptr == Records \cup {NULL}
\* BonsaiTree::root, the dummy node the constructor allocates (value -1)
root == NumRecords + 1
TreeNodes == Records \cup {root}

VARIABLES
    engine,      \* which source file's engine the run executes
    \* ---- Hyaline: Slot fields
    refCount,    \* [Slots -> Int]   Slot::refCount / global_refs[]
    head,        \* [Slots -> Ptr]   Slot::head / head[]
    \* ---- Hyaline: record (node) memory
    next,        \* [Records -> Ptr] first word of the record / Node::next
    nodeRef,     \* [Records -> Int] Node::refCount / Node::ref_count
    deletes,     \* [Records -> 0..2] times the record was passed to delete (2 = twice or more)
    \* ---- per-thread control state and locals
    pc,          \* [Threads -> STRING]
    slot,        \* [Threads -> Slots \cup {NoSlot}]  slotId of the enter/leave in progress
    handle,      \* [Threads -> Ptr] value returned by enter, passed to leave
    lhead,       \* [Threads -> Ptr] the `handle` parameter of the sweep in progress
    current,     \* [Threads -> Ptr] the sweep's `current`
    prevHead,    \* [Threads -> Ptr] retire's `prevHead` / `old_head`
    batchHead,   \* [Threads -> Ptr] retire's argument
    \* ---- history variables, read by no step of the engine
    retSlot,     \* [Records -> Slots \cup {NoSlot}] slot the record was retired to
    guards,      \* [Records -> SUBSET Threads] the threads, other than the retiring one, that
                 \* have been inside a critical section (on slot[u], whichever slot that
                 \* is) since before the record's retire was called; kept for the
                 \* simple engine (HyalineSGL.cpp) only
    users,       \* [Slots -> SUBSET Threads] threads that ever entered or retired to the slot
    sameSlot,    \* BOOLEAN: every retire so far went to the slot its caller is inside
    entersOn,    \* [Slots -> Nat] number of enter calls on the slot so far
    \* ---- main of hyaline_bonsai.cpp
    clean_i,     \* the `i` of main's slot clean-up loop; -1 until the workers are joined
    cleanEnters, \* [Slots -> Nat] history: enter calls the clean-up loop made on the slot
    \* ---- IBR: IBRManager
    global_epoch,   \* IBRManager::global_epoch
    local_epoch,    \* [Threads -> Int] thread_local local_epoch
    retired_nodes,  \* [Threads -> Seq(Records)] thread_local retired_nodes
    birth_epoch,    \* [Records -> Int] Node::birth_epoch
    retire_epoch,   \* [Records -> Int] Node::retire_epoch
    it,             \* [Threads -> Nat] clean_up's iterator: a position in retired_nodes
    \* ---- IBR: history variables
    nstate,         \* [Records -> {"none", "live", "retired", "retired_twice"}]
    starts,         \* [Threads -> Nat] number of start_op calls of the thread so far
    \* ---- IBR: the BonsaiTree of ibr.cpp
    value,          \* [Records -> Int] Node::value
    left,           \* [TreeNodes -> Ptr] Node::left
    right,          \* [TreeNodes -> Ptr] Node::right
    tpc,            \* [Threads -> STRING] the thread's place in insert / remove
    val,            \* [Threads -> Int] the `value` argument of insert / remove
    new_node,       \* [Threads -> Ptr] insert's `new_node`
    parent,         \* [Threads -> Ptr] remove's `parent`
    cur,            \* [Threads -> Ptr] the `current` of insert / remove
    is_left_child,  \* [Threads -> BOOLEAN] remove's `is_left_child`
    \* ---- IBR: the NatarajanTree of ibrNatarajan.cpp (it shares left, right, tpc, val,
    \*      new_node, parent and cur with the tree above)
    key,            \* [Records -> Int] Node::key
    target,         \* [Threads -> Ptr] remove's `target`
    left_loc,       \* [Threads -> Ptr] remove's local `left`
    right_loc,      \* [Threads -> Ptr] remove's local `right`
    successor,      \* [Threads -> Ptr] remove's `successor`
    successor_parent, \* [Threads -> Ptr] remove's `successor_parent`
    child,          \* [Threads -> Ptr] remove's `child`
    \* ---- Hyaline-S (HyalineS_SGL.cpp, hyalineS_bonsaiTree.cpp)
    globalEra,      \* globalEra
    slotRefs,       \* [Slots -> Int] slotRefs[]
    birthEra,       \* [Records -> Int] Node::birthEra
    nodes,          \* [Threads -> Seq(Records)] Batch::nodes of the thread's batch
    refCounter,     \* [Threads -> Int] Batch::refCounter of the thread's batch
    sslot,          \* [Threads -> Slots \cup {NoSlot}] the slot argument of the thread's enter
    era,            \* [Threads -> Int] deref's local `era`
    ri,             \* [Threads -> Nat] retire's position in batch.nodes
    \* ---- Hyaline-S: history variables
    snapEra,        \* [Threads -> Int] globalEra at the time of the thread's enter
    derefRes,       \* [Threads -> Ptr] what the thread's latest deref returned
    allocated,      \* SUBSET Records: the nodes made by new Node so far
    readers,        \* [Threads -> SUBSET Threads] the other threads that have been inside a
                    \* critical section since before the thread's retire was called
    senters         \* [Threads -> Nat] number of enter calls of the thread so far

\* variables of the Hyaline engines only
\* variables of main of hyaline_bonsai.cpp
mainv == <<clean_i, cleanEnters>>
honly == <<engine, refCount, head, next, nodeRef, slot, handle, lhead,
           current, prevHead, batchHead, retSlot, guards, users, sameSlot, entersOn, mainv>>
\* variables of the NatarajanTree of ibrNatarajan.cpp only
nat == <<key, target, left_loc, right_loc, successor, successor_parent, child>>
\* variables of the trees: the BonsaiTree of ibr.cpp and the NatarajanTree
tree == <<value, left, right, tpc, val, new_node, parent, cur, is_left_child, nat>>
\* variables of ibr.cpp only: the IBR manager and the tree
ionly == <<global_epoch, local_epoch, retired_nodes, birth_epoch, retire_epoch, it,
           nstate, starts, tree>>
\* variables of the Hyaline-S functions only
sonly == <<globalEra, slotRefs, birthEra, nodes, refCounter, sslot, era, ri,
           snapEra, derefRes, allocated, readers, senters>>
\* shared: pc (each thread's place in its code) and deletes

vars == <<honly, ionly, sonly, pc, deletes>>

\* ------------------------------------------------------------- helpers

RECURSIVE SumOver(_, _)
SumOver(f, S) == IF S = {} THEN 0
                 ELSE LET x == CHOOSE y \in S : TRUE IN f[x] + SumOver(f, S \ {x})

\* The record handed to the next retire call: records are allocated in order.
Fresh == {r \in Records : retSlot[r] = NoSlot}
NextFresh == CHOOSE r \in Fresh : \A q \in Fresh : r <= q

\* A thread is inside its critical section: enter has returned, leave was not called.
InCS(t) == pc[t] \in {"cs", "retire_loop", "retire_cas", "snap_retire_load", "snap_retire_cas"}

\* The clients are interchangeable, and so are the slots: only the runs in which
\* thread t makes its first enter after thread t-1 made one, and slot s is first
\* entered after slot s-1 was, are explored; every other run is one of these
\* with the threads and slots renamed.
MayStart(t, s) ==
    /\ SumOver(entersOn, Slots) < MaxEnters
    /\ \A u \in Threads : u < t => \E q \in Slots : u \in users[q]
    /\ \A q \in Slots : q < s => users[q] # {}

\* delete p: counted, saturating at 2.
Deleted(d, p) == [d EXCEPT ![p] = IF @ >= 1 THEN 2 ELSE 1]

\* *p for a read of a record's link.  Reading a record that was passed to
\* delete is a read of freed memory: any pointer value may come back.
Deref(p) == IF deletes[p] > 0 THEN Ptr ELSE {next[p]}

\* The records met by following links from p, in order, as far as the walk
\* goes without meeting a record again (at most NumRecords of them).
RECURSIVE Walk(_, _)
Walk(p, seen) == IF p = NULL \/ p \in seen THEN <<>>
                 ELSE <<p>> \o Walk(next[p], seen \cup {p})
Chain(p) == Walk(p, {})
ChainSet(p) == {Chain(p)[i] : i \in 1 .. Len(Chain(p))}

\* Following links from p comes back to a record already met.
RECURSIVE Cyclic(_, _)
Cyclic(p, seen) == IF p = NULL THEN FALSE
                   ELSE IF p \in seen THEN TRUE
                   ELSE Cyclic(next[p], seen \cup {p})

\* ------------------------------------------------- Hyaline: construction

\* Slot() : refCount(0), head(nullptr); Node() : refCount(0), next(nullptr)
HyInit ==
    /\ refCount = [s \in Slots |-> 0]
    /\ head = [s \in Slots |-> NULL]
    /\ next = [r \in Records |-> NULL]
    /\ nodeRef = [r \in Records |-> 0]
    /\ deletes = [r \in Records |-> 0]
    /\ pc = [t \in Threads |-> "idle"]
    /\ slot = [t \in Threads |-> NoSlot]
    /\ handle = [t \in Threads |-> NULL]
    /\ lhead = [t \in Threads |-> NULL]
    /\ current = [t \in Threads |-> NULL]
    /\ prevHead = [t \in Threads |-> NULL]
    /\ batchHead = [t \in Threads |-> NULL]
    /\ retSlot = [r \in Records |-> NoSlot]
    /\ guards = [r \in Records |-> {}]
    /\ users = [s \in Slots |-> {}]
    /\ sameSlot = TRUE
    /\ entersOn = [s \in Slots |-> 0]
    /\ clean_i = 0 - 1
    /\ cleanEnters = [s \in Slots |-> 0]

\* global_epoch{0}; local_epoch = -1; retired_nodes empty; birth_epoch{0}, retire_epoch{-1}
IbrInit ==
    /\ global_epoch = 0
    /\ local_epoch = [t \in Threads |-> Inactive]
    /\ retired_nodes = [t \in Threads |-> <<>>]
    /\ birth_epoch = [r \in Records |-> 0]
    /\ retire_epoch = [r \in Records |-> Inactive]
    /\ it = [t \in Threads |-> 0]
    /\ nstate = [r \in Records |-> "none"]
    /\ starts = [t \in Threads |-> 0]
    /\ value = [r \in Records |-> 0]
    /\ left = [n \in TreeNodes |-> NULL]
    /\ right = [n \in TreeNodes |-> NULL]
    /\ tpc = [t \in Threads |-> "none"]
    /\ val = [t \in Threads |-> 0]
    /\ new_node = [t \in Threads |-> NULL]
    /\ parent = [t \in Threads |-> NULL]
    /\ cur = [t \in Threads |-> NULL]
    /\ is_left_child = [t \in Threads |-> FALSE]
    /\ key = [r \in Records |-> 0]
    /\ target = [t \in Threads |-> NULL]
    /\ left_loc = [t \in Threads |-> NULL]
    /\ right_loc = [t \in Threads |-> NULL]
    /\ successor = [t \in Threads |-> NULL]
    /\ successor_parent = [t \in Threads |-> NULL]
    /\ child = [t \in Threads |-> NULL]

\* ------------------------------------------------------- Hyaline::enter
\* (the same two accesses in HyalineSGL.cpp, hyaline.cpp, hyaline_bonsai.cpp and sgl.cpp)

\* refCount.fetch_add(1)
FetchAdd(f, s) == [f EXCEPT ![s] = @ + 1]

\* refCount.fetch_sub(1)
FetchSubLost(f, s) == f
FetchSub(f, s) == [f EXCEPT ![s] = @ - 1]

\* slot.refCount.fetch_add(1)
enter_fetch_add(t, s) ==
    /\ pc[t] = "idle"
    /\ MayStart(t, s)
    /\ refCount' = FetchAdd(refCount, s)
    /\ slot' = [slot EXCEPT ![t] = s]
    /\ pc' = [pc EXCEPT ![t] = "enter_load"]
    /\ users' = [users EXCEPT ![s] = @ \cup {t}]
    /\ entersOn' = [entersOn EXCEPT ![s] = @ + 1]
    /\ UNCHANGED <<ionly, sonly, mainv, engine, head, next, nodeRef, deletes, handle, lhead, current,
                   prevHead, batchHead, retSlot, guards, sameSlot>>

\* return slot.head.load()
enter_load(t) ==
    /\ pc[t] = "enter_load"
    /\ handle' = [handle EXCEPT ![t] = head[slot[t]]]
    /\ pc' = [pc EXCEPT ![t] = "cs"]
    /\ UNCHANGED <<ionly, sonly, mainv, engine, refCount, head, next, nodeRef, deletes, slot, lhead, current,
                   prevHead, batchHead, retSlot, guards, users, sameSlot, entersOn>>

\* ------------------------------------------------------ Hyaline::retire
\* (HyalineSGL.cpp; hyaline.cpp and hyaline_bonsai.cpp have the same loop)

\* The caller's side of a retire call: a fresh record r goes to slot s.
RetireGhost(t, r, s) ==
    /\ retSlot' = [retSlot EXCEPT ![r] = s]
    /\ guards' = IF engine = "HyalineSGL"
                 THEN [guards EXCEPT ![r] = {u \in Threads \ {t} : InCS(u)}]
                 ELSE guards
    /\ users' = [users EXCEPT ![s] = @ \cup {t}]
    /\ sameSlot' = (sameSlot /\ slot[t] = s)

\* The value retire stores in the record's link: *batchHead = prevHead
RetireLinkSelf(r, h) == r
RetireLinkNone(r, h) == NULL
RetireLink(r, h) == h

\* The call retire(batchHead, s) and the first pass of the do-body:
\*   prevHead = slot.head.load(); *batchHead = prevHead;
retire_call(t, s) ==
    /\ pc[t] = "cs"
    /\ Fresh # {}
    /\ LET r == NextFresh IN
        /\ batchHead' = [batchHead EXCEPT ![t] = r]
        /\ prevHead' = [prevHead EXCEPT ![t] = head[s]]
        /\ next' = [next EXCEPT ![r] = RetireLink(r, head[s])]
        /\ RetireGhost(t, r, s)
    /\ pc' = [pc EXCEPT ![t] = "retire_cas"]
    /\ UNCHANGED <<ionly, sonly, mainv, engine, refCount, head, nodeRef, deletes, slot, handle, lhead, current,
                   entersOn>>

\* (a later pass of the do-body that does not load the head again)
retire_load_stale(t) ==
    /\ pc[t] = "retire_loop"
    /\ prevHead' = [prevHead EXCEPT ![t] = NULL]
    /\ pc' = [pc EXCEPT ![t] = "retire_cas"]
    /\ UNCHANGED <<ionly, sonly, mainv, engine, refCount, head, next, nodeRef, deletes, slot, handle, lhead,
                   current, batchHead, retSlot, guards, users, sameSlot, entersOn>>

\* A later pass of the do-body, after a failed compare_exchange.
retire_load(t) ==
    /\ pc[t] = "retire_loop"
    /\ LET s == retSlot[batchHead[t]] IN
        /\ prevHead' = [prevHead EXCEPT ![t] = head[s]]
        /\ next' = [next EXCEPT ![batchHead[t]] = RetireLink(batchHead[t], head[s])]
    /\ pc' = [pc EXCEPT ![t] = "retire_cas"]
    /\ UNCHANGED <<ionly, sonly, mainv, engine, refCount, head, nodeRef, deletes, slot, handle, lhead, current,
                   batchHead, retSlot, guards, users, sameSlot, entersOn>>

\* slot.head.compare_exchange_weak(prevHead, batchHead) succeeds: retire returns.
retire_cas_ok(t) ==
    /\ pc[t] = "retire_cas"
    /\ head[retSlot[batchHead[t]]] = prevHead[t]
    /\ head' = [head EXCEPT ![retSlot[batchHead[t]]] = batchHead[t]]
    /\ batchHead' = [batchHead EXCEPT ![t] = NULL]
    /\ prevHead' = [prevHead EXCEPT ![t] = NULL]
    /\ pc' = [pc EXCEPT ![t] = "cs"]
    /\ UNCHANGED <<ionly, sonly, mainv, engine, refCount, next, nodeRef, deletes, slot, handle, lhead, current,
                   retSlot, guards, users, sameSlot, entersOn>>

\* compare_exchange_weak fails (head changed, or spuriously): the loop goes round.
retire_cas_fail(t) ==
    /\ pc[t] = "retire_cas"
    /\ prevHead' = [prevHead EXCEPT ![t] = head[retSlot[batchHead[t]]]]
    /\ pc' = [pc EXCEPT ![t] = "retire_loop"]
    /\ UNCHANGED <<ionly, sonly, mainv, engine, refCount, head, next, nodeRef, deletes, slot, handle, lhead,
                   current, batchHead, retSlot, guards, users, sameSlot, entersOn>>

\* ------------------------------------------------------- Hyaline::leave
\* (HyalineSGL.cpp; hyaline.cpp and hyaline_bonsai.cpp have the same body)

\* auto head = slot.head.load()
leave_load(t) ==
    /\ pc[t] = "cs"
    /\ lhead' = [lhead EXCEPT ![t] = head[slot[t]]]
    /\ guards' = [r \in Records |-> guards[r] \ {t}]
    /\ pc' = [pc EXCEPT ![t] = "leave_sub"]
    /\ UNCHANGED <<ionly, sonly, mainv, engine, refCount, head, next, nodeRef, deletes, slot, handle, current,
                   prevHead, batchHead, retSlot, users, sameSlot, entersOn>>

\* leave(slotId, handle) called with any pointer h as its handle, not only the
\* one enter returned; then as leave_load: auto head = slot.head.load()
leave_load_any(t, h) ==
    /\ pc[t] = "cs"
    /\ handle' = [handle EXCEPT ![t] = h]
    /\ lhead' = [lhead EXCEPT ![t] = head[slot[t]]]
    /\ guards' = [r \in Records |-> guards[r] \ {t}]
    /\ pc' = [pc EXCEPT ![t] = "leave_sub"]
    /\ UNCHANGED <<ionly, sonly, mainv, engine, refCount, head, next, nodeRef, deletes, slot, current,
                   prevHead, batchHead, retSlot, users, sameSlot, entersOn>>

\* (the guard without its test of the count: if (head))
LeaveSweepsAnyCount(ref, h) == h # NULL

\* The guard of the sweep in leave: if (ref == 1 && head)
LeaveSweeps(ref, h) == ref = 1 /\ h # NULL

\* (leave passing on the handle its caller gave it)
SweepBoundHandle(t) == handle[t]

\* What leave passes to traverseAndReclaim as its `handle` parameter:
\* traverseAndReclaim(slot, head), the head that leave has just loaded, and
\* not the handle the caller gave to leave.
SweepBound(t) == lhead[t]

\* auto ref = slot.refCount.fetch_sub(1); if (ref == 1 && head) traverseAndReclaim(slot, head)
leave_fetch_sub(t) ==
    /\ pc[t] = "leave_sub"
    /\ refCount' = FetchSub(refCount, slot[t])
    /\ IF LeaveSweeps(refCount[slot[t]], lhead[t])
         THEN /\ pc' = [pc EXCEPT ![t] = "sweep_load"]
              /\ lhead' = [lhead EXCEPT ![t] = SweepBound(t)]
              /\ UNCHANGED <<slot, handle>>
         ELSE /\ pc' = [pc EXCEPT ![t] = "idle"]
              /\ lhead' = [lhead EXCEPT ![t] = NULL]
              /\ slot' = [slot EXCEPT ![t] = NoSlot]
              /\ handle' = [handle EXCEPT ![t] = NULL]
    /\ UNCHANGED <<ionly, sonly, mainv, engine, head, next, nodeRef, deletes, current, prevHead, batchHead,
                   retSlot, guards, users, sameSlot, entersOn>>

\* -------------------------------------------- Hyaline::traverseAndReclaim

\* current = slot.head.load()
traverse_load(t) ==
    /\ pc[t] = "sweep_load"
    /\ current' = [current EXCEPT ![t] = head[slot[t]]]
    /\ pc' = [pc EXCEPT ![t] = "sweep"]
    /\ UNCHANGED <<ionly, sonly, mainv, engine, refCount, head, next, nodeRef, deletes, slot, handle, lhead,
                   prevHead, batchHead, retSlot, guards, users, sameSlot, entersOn>>

\* The loop condition: while (current && current != handle)
SweepGoesOn(t) == current[t] # NULL /\ current[t] # lhead[t]

\* HyalineSGL.cpp, one pass of the loop body:
\*   next = *current; delete current; current = next;
traverse_step(t) ==
    /\ pc[t] = "sweep"
    /\ SweepGoesOn(t)
    /\ \E n \in Deref(current[t]) :
        /\ deletes' = Deleted(deletes, current[t])
        /\ current' = [current EXCEPT ![t] = n]
    /\ UNCHANGED <<ionly, sonly, mainv, engine, refCount, head, next, nodeRef, pc, slot, handle, lhead,
                   prevHead, batchHead, retSlot, guards, users, sameSlot, entersOn>>

\* (the value fetch_sub would return had the count started at 1, not 0)
NodeRefBeforeRaised(p) == IF deletes[p] > 0 THEN {0, 1} ELSE {nodeRef[p] + 1}

\* The value of current->refCount.fetch_sub(1): the count before the decrement
\* (of a freed node: any of the values the test distinguishes).
NodeRefBefore(p) == IF deletes[p] > 0 THEN {0, 1} ELSE {nodeRef[p]}

\* The per-node counts after current->refCount.fetch_sub(1).  A sweep meets a
\* node at most once unless it has read freed memory, so without such a read a
\* count never falls below -MaxEnters; the model stops counting one below that
\* (the engine only ever asks whether a count is 1).  The count of a freed node
\* is freed memory and is not tracked.
RefFloor == 0 - (MaxEnters + 1)
NodeRefAfter(p) ==
    IF deletes[p] > 0 \/ nodeRef[p] <= RefFloor THEN nodeRef
    ELSE [nodeRef EXCEPT ![p] = @ - 1]

\* hyaline.cpp, one pass of the loop body:
\*   next = current->next; if (current->refCount.fetch_sub(1) == 1) delete current; current = next;
traverse_step_rc(t) ==
    /\ pc[t] = "sweep"
    /\ SweepGoesOn(t)
    /\ \E n \in Deref(current[t]) : \E c \in NodeRefBefore(current[t]) :
        /\ nodeRef' = NodeRefAfter(current[t])
        /\ deletes' = IF c = 1 THEN Deleted(deletes, current[t]) ELSE deletes
        /\ current' = [current EXCEPT ![t] = n]
    /\ UNCHANGED <<ionly, sonly, mainv, engine, refCount, head, next, pc, slot, handle, lhead,
                   prevHead, batchHead, retSlot, guards, users, sameSlot, entersOn>>

\* The loop ends; if (slot.refCount.load() == 0) ...
traverse_check(t) ==
    /\ pc[t] = "sweep"
    /\ ~SweepGoesOn(t)
    /\ current' = [current EXCEPT ![t] = NULL]
    /\ lhead' = [lhead EXCEPT ![t] = NULL]
    /\ IF refCount[slot[t]] = 0
         THEN /\ pc' = [pc EXCEPT ![t] = "sweep_reset"]
              /\ UNCHANGED <<slot, handle>>
         ELSE /\ pc' = [pc EXCEPT ![t] = "idle"]
              /\ slot' = [slot EXCEPT ![t] = NoSlot]
              /\ handle' = [handle EXCEPT ![t] = NULL]
    /\ UNCHANGED <<ionly, sonly, mainv, engine, refCount, head, next, nodeRef, deletes, prevHead, batchHead,
                   retSlot, guards, users, sameSlot, entersOn>>

\* (the reset without its store: the head keeps its value)
traverse_reset_kept(t) ==
    /\ pc[t] = "sweep_reset"
    /\ pc' = [pc EXCEPT ![t] = "idle"]
    /\ slot' = [slot EXCEPT ![t] = NoSlot]
    /\ handle' = [handle EXCEPT ![t] = NULL]
    /\ UNCHANGED <<ionly, sonly, mainv, engine, refCount, head, next, nodeRef, deletes, lhead, current,
                   prevHead, batchHead, retSlot, guards, users, sameSlot, entersOn>>

\* ... slot.head.store(nullptr)
traverse_reset(t) ==
    /\ pc[t] = "sweep_reset"
    /\ head' = [head EXCEPT ![slot[t]] = NULL]
    /\ pc' = [pc EXCEPT ![t] = "idle"]
    /\ slot' = [slot EXCEPT ![t] = NoSlot]
    /\ handle' = [handle EXCEPT ![t] = NULL]
    /\ UNCHANGED <<ionly, sonly, mainv, engine, refCount, next, nodeRef, deletes, lhead, current,
                   prevHead, batchHead, retSlot, guards, users, sameSlot, entersOn>>

\* ------------------------------------------------ hyaline_bonsai.cpp: main
\* Worker i calls tree.insert(key, i) and tree.remove(key, i): enter(i), at most
\* retires to slot i, leave(i, handle).  main joins the workers and then runs
\*   for (i = 0; i < threads; ++i) while (true) {
\*       handle = hyaline.enter(i); if (!handle) break; hyaline.leave(i, handle); }

\* Thread t of the model is worker t - 1 of the harness; the last thread is main.
Workers == 1 .. NumSlots
MainThread == NumThreads

\* for (auto& worker : workers) worker.join(): every worker has returned
main_join ==
    /\ clean_i < 0
    /\ \A t \in Workers : pc[t] = "idle"
    /\ clean_i' = 0
    /\ UNCHANGED <<ionly, sonly, engine, refCount, head, next, nodeRef, deletes, pc, slot, handle,
                   lhead, current, prevHead, batchHead, retSlot, guards, users, sameSlot,
                   entersOn, cleanEnters>>

\* Node* handle = hyaline.enter(i): slot.refCount.fetch_add(1)
main_enter ==
    /\ clean_i \in Slots
    /\ pc[MainThread] = "idle"
    /\ cleanEnters[clean_i] < MaxCleanEnters
    /\ refCount' = FetchAdd(refCount, clean_i)
    /\ slot' = [slot EXCEPT ![MainThread] = clean_i]
    /\ pc' = [pc EXCEPT ![MainThread] = "enter_load"]
    /\ users' = [users EXCEPT ![clean_i] = @ \cup {MainThread}]
    /\ entersOn' = [entersOn EXCEPT ![clean_i] = @ + 1]
    /\ cleanEnters' = [cleanEnters EXCEPT ![clean_i] = @ + 1]
    /\ UNCHANGED <<ionly, sonly, engine, head, next, nodeRef, deletes, handle, lhead, current,
                   prevHead, batchHead, retSlot, guards, sameSlot, clean_i>>

\* if (!handle) break: the next pass of the for loop, no leave
main_break ==
    /\ clean_i \in Slots
    /\ pc[MainThread] = "cs"
    /\ handle[MainThread] = NULL
    /\ clean_i' = clean_i + 1
    /\ pc' = [pc EXCEPT ![MainThread] = "idle"]
    /\ slot' = [slot EXCEPT ![MainThread] = NoSlot]
    /\ UNCHANGED <<ionly, sonly, engine, refCount, head, next, nodeRef, deletes, handle, lhead,
                   current, prevHead, batchHead, retSlot, guards, users, sameSlot, entersOn,
                   cleanEnters>>

\* The workers run until they are joined, main runs its loop after that; main
\* calls leave only with the non-null handle its enter returned.
MayRun(t) ==
    IF t \in Workers THEN clean_i < 0
    ELSE t = MainThread /\ clean_i \in Slots /\ (pc[t] = "cs" => handle[t] # NULL)

\* ----------------------------------------------------- sgl.cpp: retire
\* (the snapshot-count engine; its enter is the two steps above)

\* node->ref_count.store(global_refs[slot].load())
snap_retire_call(t, s) ==
    /\ pc[t] = "cs"
    /\ Fresh # {}
    /\ LET r == NextFresh IN
        /\ batchHead' = [batchHead EXCEPT ![t] = r]
        /\ nodeRef' = [nodeRef EXCEPT ![r] = refCount[s]]
        /\ RetireGhost(t, r, s)
    /\ pc' = [pc EXCEPT ![t] = "snap_retire_load"]
    /\ UNCHANGED <<ionly, sonly, mainv, engine, refCount, head, next, deletes, slot, handle, lhead, current,
                   prevHead, entersOn>>

\* Node* old_head = head[slot].load(); first pass of the do-body: node->next = old_head
snap_retire_load(t) ==
    /\ pc[t] = "snap_retire_load"
    /\ LET s == retSlot[batchHead[t]] IN
        /\ prevHead' = [prevHead EXCEPT ![t] = head[s]]
        /\ next' = [next EXCEPT ![batchHead[t]] = RetireLink(batchHead[t], head[s])]
    /\ pc' = [pc EXCEPT ![t] = "snap_retire_cas"]
    /\ UNCHANGED <<ionly, sonly, mainv, engine, refCount, head, nodeRef, deletes, slot, handle, lhead, current,
                   batchHead, retSlot, guards, users, sameSlot, entersOn>>

\* head[slot].compare_exchange_weak(old_head, node) succeeds: retire returns.
snap_retire_cas_ok(t) ==
    /\ pc[t] = "snap_retire_cas"
    /\ head[retSlot[batchHead[t]]] = prevHead[t]
    /\ head' = [head EXCEPT ![retSlot[batchHead[t]]] = batchHead[t]]
    /\ batchHead' = [batchHead EXCEPT ![t] = NULL]
    /\ prevHead' = [prevHead EXCEPT ![t] = NULL]
    /\ pc' = [pc EXCEPT ![t] = "cs"]
    /\ UNCHANGED <<ionly, sonly, mainv, engine, refCount, next, nodeRef, deletes, slot, handle, lhead, current,
                   retSlot, guards, users, sameSlot, entersOn>>

\* compare_exchange_weak fails (head changed, or spuriously) and leaves the
\* head it found in old_head; next pass of the do-body: node->next = old_head
snap_retire_cas_fail(t) ==
    /\ pc[t] = "snap_retire_cas"
    /\ LET s == retSlot[batchHead[t]] IN
        /\ prevHead' = [prevHead EXCEPT ![t] = head[s]]
        /\ next' = [next EXCEPT ![batchHead[t]] = RetireLink(batchHead[t], head[s])]
    /\ UNCHANGED <<ionly, sonly, mainv, engine, refCount, head, nodeRef, deletes, pc, slot, handle, lhead,
                   current, batchHead, retSlot, guards, users, sameSlot, entersOn>>

\* ------------------------------------------------------ sgl.cpp: leave

\* Node* current = head[slot].load()
snap_leave_load(t) ==
    /\ pc[t] = "cs"
    /\ current' = [current EXCEPT ![t] = head[slot[t]]]
    /\ guards' = [r \in Records |-> guards[r] \ {t}]
    /\ pc' = [pc EXCEPT ![t] = "snap_sub"]
    /\ UNCHANGED <<ionly, sonly, mainv, engine, refCount, head, next, nodeRef, deletes, slot, handle, lhead,
                   prevHead, batchHead, retSlot, users, sameSlot, entersOn>>

\* global_refs[slot].fetch_sub(1)
snap_leave_sub(t) ==
    /\ pc[t] = "snap_sub"
    /\ refCount' = FetchSub(refCount, slot[t])
    /\ pc' = [pc EXCEPT ![t] = "snap_sweep"]
    /\ UNCHANGED <<ionly, sonly, mainv, engine, head, next, nodeRef, deletes, slot, handle, lhead, current,
                   prevHead, batchHead, retSlot, guards, users, sameSlot, entersOn>>

\* The loop condition: while (current && current != handle), handle the caller's
SnapGoesOn(t) == current[t] # NULL /\ current[t] # handle[t]

\* (the loop body with the test == 0 for == 1)
snap_sweep_step_zero(t) ==
    /\ pc[t] = "snap_sweep"
    /\ SnapGoesOn(t)
    /\ \E n \in Deref(current[t]) : \E c \in NodeRefBefore(current[t]) :
        /\ nodeRef' = NodeRefAfter(current[t])
        /\ deletes' = IF c = 0 THEN Deleted(deletes, current[t]) ELSE deletes
        /\ current' = [current EXCEPT ![t] = n]
    /\ UNCHANGED <<ionly, sonly, mainv, engine, refCount, head, next, pc, slot, handle, lhead,
                   prevHead, batchHead, retSlot, guards, users, sameSlot, entersOn>>

\* One pass of the loop body:
\*   next = current->next; if (current->ref_count.fetch_sub(1) == 1) delete current; current = next;
snap_sweep_step(t) ==
    /\ pc[t] = "snap_sweep"
    /\ SnapGoesOn(t)
    /\ \E n \in Deref(current[t]) : \E c \in NodeRefBefore(current[t]) :
        /\ nodeRef' = NodeRefAfter(current[t])
        /\ deletes' = IF c = 1 THEN Deleted(deletes, current[t]) ELSE deletes
        /\ current' = [current EXCEPT ![t] = n]
    /\ UNCHANGED <<ionly, sonly, mainv, engine, refCount, head, next, pc, slot, handle, lhead,
                   prevHead, batchHead, retSlot, guards, users, sameSlot, entersOn>>

\* The loop ends and leave returns.
snap_sweep_end(t) ==
    /\ pc[t] = "snap_sweep"
    /\ ~SnapGoesOn(t)
    /\ current' = [current EXCEPT ![t] = NULL]
    /\ handle' = [handle EXCEPT ![t] = NULL]
    /\ slot' = [slot EXCEPT ![t] = NoSlot]
    /\ pc' = [pc EXCEPT ![t] = "idle"]
    /\ UNCHANGED <<ionly, sonly, mainv, engine, refCount, head, next, nodeRef, deletes, lhead,
                   prevHead, batchHead, retSlot, guards, users, sameSlot, entersOn>>

\* A thread is executing traverseAndReclaim.
Sweeping(t) == pc[t] \in {"sweep_load", "sweep", "sweep_reset"}

\* ============================================================ IBRManager
\* (ibr.cpp; ibrNatarajan.cpp, ibrSGL.cpp and ibr_sortedUnorderedMap.cpp have
\*  the same start_op, end_op, retire_node, clean_up and get_min_active_epoch)

\* The clients are interchangeable: thread t starts its first operation after
\* thread t-1 started one.
MayStartOp(t) ==
    /\ SumOver(starts, Threads) < MaxEnters
    /\ \A u \in Threads : u < t => starts[u] > 0

\* (the assignment of start_op turned round: global_epoch = local_epoch)
start_op_reversed(t) ==
    /\ pc[t] = "idle"
    /\ MayStartOp(t)
    /\ global_epoch' = local_epoch[t]
    /\ starts' = [starts EXCEPT ![t] = @ + 1]
    /\ pc' = [pc EXCEPT ![t] = "op"]
    /\ UNCHANGED <<honly, sonly, local_epoch, retired_nodes, birth_epoch, retire_epoch, it, nstate, deletes>>

\* local_epoch = global_epoch.load()
start_op(t) ==
    /\ pc[t] = "idle"
    /\ MayStartOp(t)
    /\ local_epoch' = [local_epoch EXCEPT ![t] = global_epoch]
    /\ starts' = [starts EXCEPT ![t] = @ + 1]
    /\ pc' = [pc EXCEPT ![t] = "op"]
    /\ UNCHANGED <<honly, sonly, global_epoch, retired_nodes, birth_epoch, retire_epoch, it, nstate, deletes>>

\* (end_op without its assignment)
end_op_stale(t) ==
    /\ pc[t] = "op"
    /\ pc' = [pc EXCEPT ![t] = "idle"]
    /\ UNCHANGED <<honly, sonly, global_epoch, local_epoch, retired_nodes, birth_epoch, retire_epoch,
                   it, nstate, starts, deletes>>

\* local_epoch = -1
end_op(t) ==
    /\ pc[t] = "op"
    /\ local_epoch' = [local_epoch EXCEPT ![t] = Inactive]
    /\ pc' = [pc EXCEPT ![t] = "idle"]
    /\ UNCHANGED <<honly, sonly, global_epoch, retired_nodes, birth_epoch, retire_epoch, it, nstate,
                   starts, deletes>>

\* The node handed out by the next allocate_node: nodes are allocated in order.
Unallocated == {r \in Records : nstate[r] = "none"}

\* node = new Node(); node->birth_epoch = global_epoch.load()
allocate_node(t) ==
    /\ pc[t] = "op"
    /\ Unallocated # {}
    /\ LET r == CHOOSE x \in Unallocated : \A q \in Unallocated : x <= q IN
        /\ birth_epoch' = [birth_epoch EXCEPT ![r] = global_epoch]
        /\ nstate' = [nstate EXCEPT ![r] = "live"]
    /\ UNCHANGED <<honly, sonly, global_epoch, local_epoch, retired_nodes, retire_epoch, it, starts,
                   pc, deletes>>

\* (retire_node without its stamp: the node keeps the retire_epoch it had)
retire_node_unstamped(t, r) ==
    /\ pc[t] = "op"
    /\ nstate[r] = "live"
    /\ retired_nodes' = [retired_nodes EXCEPT ![t] = Append(@, r)]
    /\ nstate' = [nstate EXCEPT ![r] = "retired"]
    /\ it' = [it EXCEPT ![t] = 1]
    /\ pc' = [pc EXCEPT ![t] = "clean_up"]
    /\ UNCHANGED <<honly, sonly, global_epoch, local_epoch, birth_epoch, retire_epoch, starts, deletes>>

\* node->retire_epoch = global_epoch.load(); retired_nodes.push_back(node); clean_up() is entered
retire_node(t, r) ==
    /\ pc[t] = "op"
    /\ nstate[r] = "live"
    /\ retire_epoch' = [retire_epoch EXCEPT ![r] = global_epoch]
    /\ retired_nodes' = [retired_nodes EXCEPT ![t] = Append(@, r)]
    /\ nstate' = [nstate EXCEPT ![r] = "retired"]
    /\ it' = [it EXCEPT ![t] = 1]
    /\ pc' = [pc EXCEPT ![t] = "clean_up"]
    /\ UNCHANGED <<honly, sonly, global_epoch, local_epoch, birth_epoch, starts, deletes>>

\* (the heuristic with its sign turned: 2 - global_epoch)
get_min_negated == 2 - global_epoch

\* return global_epoch.load() - 2
get_min_active_epoch == global_epoch - 2

\* (the test with <= for <)
ReclaimableAtOrBelow(r) == retire_epoch[r] <= get_min_active_epoch

\* The test of clean_up: node->retire_epoch.load() < get_min_active_epoch()
Reclaimable(r) == retire_epoch[r] < get_min_active_epoch

\* retired_nodes.erase(it)
Erase(q, i) == [j \in 1 .. (Len(q) - 1) |-> IF j < i THEN q[j] ELSE q[j + 1]]

\* (the loop body over one list shared by all threads, the list of thread 1)
clean_up_step_shared(t) ==
    /\ pc[t] = "clean_up"
    /\ it[t] <= Len(retired_nodes[1])
    /\ LET node == retired_nodes[1][it[t]] IN
        IF Reclaimable(node)
          THEN /\ deletes' = Deleted(deletes, node)
               /\ retired_nodes' = [retired_nodes EXCEPT ![1] = Erase(@, it[t])]
               /\ UNCHANGED it
          ELSE /\ it' = [it EXCEPT ![t] = @ + 1]
               /\ UNCHANGED <<deletes, retired_nodes>>
    /\ UNCHANGED <<honly, sonly, global_epoch, local_epoch, birth_epoch, retire_epoch, nstate, starts, pc>>

\* One pass of clean_up's loop body.
clean_up_step(t) ==
    /\ pc[t] = "clean_up"
    /\ it[t] <= Len(retired_nodes[t])
    /\ LET node == retired_nodes[t][it[t]] IN
        IF Reclaimable(node)
          THEN /\ deletes' = Deleted(deletes, node)
               /\ retired_nodes' = [retired_nodes EXCEPT ![t] = Erase(@, it[t])]
               /\ UNCHANGED it
          ELSE /\ it' = [it EXCEPT ![t] = @ + 1]
               /\ UNCHANGED <<deletes, retired_nodes>>
    /\ UNCHANGED <<honly, sonly, global_epoch, local_epoch, birth_epoch, retire_epoch, nstate, starts, pc>>

\* it == retired_nodes.end(): clean_up and retire_node return.
clean_up_end(t) ==
    /\ pc[t] = "clean_up"
    /\ it[t] > Len(retired_nodes[t])
    /\ it' = [it EXCEPT ![t] = 0]
    /\ pc' = [pc EXCEPT ![t] = "op"]
    /\ UNCHANGED <<honly, sonly, global_epoch, local_epoch, retired_nodes, birth_epoch, retire_epoch,
                   nstate, starts, deletes>>

\* The external tick of the specification's section 4.3: global_epoch.fetch_add(1),
\* by any thread at any time.  No file of the repository has this step.
advance_epoch ==
    /\ global_epoch < MaxEpoch
    /\ global_epoch' = global_epoch + 1
    /\ UNCHANGED <<honly, sonly, local_epoch, retired_nodes, birth_epoch, retire_epoch, it, nstate,
                   starts, tree, pc, deletes>>

\* ------------------------------------------------------- BonsaiTree (ibr.cpp)
\* (the harness's tree: insert and remove, over the manager's functions above.
\* Each step below is one access to shared memory or one call of the manager.)

\* The manager's variables, which a step of the tree outside a manager call
\* leaves alone.
manager == <<global_epoch, local_epoch, retired_nodes, birth_epoch, retire_epoch, it,
             nstate, starts>>

\* The values insert and remove are called with.
Values == 1 .. MaxValue

\* node->value (the dummy root holds -1)
ValueOf(n) == IF n = root THEN 0 - 1 ELSE value[n]

\* insert(value): IBRManager::start_op()
insert_start(t, v) ==
    /\ tpc[t] = "none"
    /\ start_op(t)
    /\ val' = [val EXCEPT ![t] = v]
    /\ tpc' = [tpc EXCEPT ![t] = "ins_alloc"]
    /\ UNCHANGED <<value, left, right, new_node, parent, cur, is_left_child>>

\* Node* new_node = IBRManager::allocate_node(value); Node* current = root
insert_alloc(t) ==
    /\ tpc[t] = "ins_alloc"
    /\ allocate_node(t)
    /\ LET r == CHOOSE x \in Unallocated : \A q \in Unallocated : x <= q IN
        /\ value' = [value EXCEPT ![r] = val[t]]
        /\ new_node' = [new_node EXCEPT ![t] = r]
    /\ cur' = [cur EXCEPT ![t] = root]
    /\ tpc' = [tpc EXCEPT ![t] = "ins_loop"]
    /\ UNCHANGED <<left, right, val, parent, is_left_child>>

\* The child pointer a pass of insert's loop works on: current->left if
\* value < current->value, current->right otherwise.
GoesLeft(t) == val[t] < ValueOf(cur[t])
Child(t) == IF GoesLeft(t) THEN left[cur[t]] ELSE right[cur[t]]

\* One pass of the loop up to its load: left = current->left.load() (or right);
\* if it is not null, current = left.
insert_load(t) ==
    /\ tpc[t] = "ins_loop"
    /\ IF Child(t) = NULL
         THEN /\ tpc' = [tpc EXCEPT ![t] = "ins_cas"]
              /\ UNCHANGED cur
         ELSE /\ cur' = [cur EXCEPT ![t] = Child(t)]
              /\ UNCHANGED tpc
    /\ UNCHANGED <<honly, sonly, manager, pc, deletes,
                   value, left, right, val, new_node, parent, is_left_child>>

\* current->left.compare_exchange_weak(left, new_node) with left == nullptr succeeds; break
insert_cas_ok(t) ==
    /\ tpc[t] = "ins_cas"
    /\ Child(t) = NULL
    /\ IF GoesLeft(t)
         THEN /\ left' = [left EXCEPT ![cur[t]] = new_node[t]]
              /\ UNCHANGED right
         ELSE /\ right' = [right EXCEPT ![cur[t]] = new_node[t]]
              /\ UNCHANGED left
    /\ tpc' = [tpc EXCEPT ![t] = "ins_end"]
    /\ UNCHANGED <<honly, sonly, manager, pc, deletes,
                   value, val, new_node, parent, cur, is_left_child>>

\* The compare_exchange finds another node linked in the meantime: the loop goes round.
insert_cas_fail(t) ==
    /\ tpc[t] = "ins_cas"
    /\ Child(t) # NULL
    /\ tpc' = [tpc EXCEPT ![t] = "ins_loop"]
    /\ UNCHANGED <<honly, sonly, manager, pc, deletes,
                   value, left, right, val, new_node, parent, cur, is_left_child>>

\* IBRManager::end_op(); insert returns
insert_end(t) ==
    /\ tpc[t] = "ins_end"
    /\ end_op(t)
    /\ tpc' = [tpc EXCEPT ![t] = "none"]
    /\ val' = [val EXCEPT ![t] = 0]
    /\ new_node' = [new_node EXCEPT ![t] = NULL]
    /\ cur' = [cur EXCEPT ![t] = NULL]
    /\ UNCHANGED <<value, left, right, parent, is_left_child>>

\* remove(value): IBRManager::start_op(); parent = nullptr; current = root; is_left_child = false
remove_start(t, v) ==
    /\ tpc[t] = "none"
    /\ start_op(t)
    /\ val' = [val EXCEPT ![t] = v]
    /\ parent' = [parent EXCEPT ![t] = NULL]
    /\ cur' = [cur EXCEPT ![t] = root]
    /\ is_left_child' = [is_left_child EXCEPT ![t] = FALSE]
    /\ tpc' = [tpc EXCEPT ![t] = "rem_loop"]
    /\ UNCHANGED <<value, left, right, new_node>>

\* One pass of while (current && current->value != value):
\*   parent = current; current = current->left.load() or current->right.load()
remove_loop(t) ==
    /\ tpc[t] = "rem_loop"
    /\ cur[t] # NULL
    /\ ValueOf(cur[t]) # val[t]
    /\ parent' = [parent EXCEPT ![t] = cur[t]]
    /\ cur' = [cur EXCEPT ![t] = Child(t)]
    /\ is_left_child' = [is_left_child EXCEPT ![t] = GoesLeft(t)]
    /\ UNCHANGED <<honly, sonly, manager, pc, deletes,
                   value, left, right, tpc, val, new_node>>

\* if (!current) { IBRManager::end_op(); return; }
remove_not_found(t) ==
    /\ tpc[t] = "rem_loop"
    /\ cur[t] = NULL
    /\ end_op(t)
    /\ tpc' = [tpc EXCEPT ![t] = "none"]
    /\ val' = [val EXCEPT ![t] = 0]
    /\ parent' = [parent EXCEPT ![t] = NULL]
    /\ is_left_child' = [is_left_child EXCEPT ![t] = FALSE]
    /\ UNCHANGED <<value, left, right, new_node, cur>>

\* IBRManager::retire_node(current): the call (its clean_up follows, in the
\* manager's steps).  A node that another remove has already retired is not
\* retired a second time in this model: the run is not followed past that call.
remove_retire(t) ==
    /\ tpc[t] = "rem_loop"
    /\ cur[t] # NULL
    /\ ValueOf(cur[t]) = val[t]
    /\ retire_node(t, cur[t])
    /\ tpc' = [tpc EXCEPT ![t] = "rem_unlink"]
    /\ UNCHANGED <<value, left, right, val, new_node, parent, cur, is_left_child>>

\* retire_node has returned; parent->left.store(nullptr) or parent->right.store(nullptr)
remove_unlink(t) ==
    /\ tpc[t] = "rem_unlink"
    /\ pc[t] = "op"
    /\ IF is_left_child[t]
         THEN /\ left' = [left EXCEPT ![parent[t]] = NULL]
              /\ UNCHANGED right
         ELSE /\ right' = [right EXCEPT ![parent[t]] = NULL]
              /\ UNCHANGED left
    /\ tpc' = [tpc EXCEPT ![t] = "rem_end"]
    /\ UNCHANGED <<honly, sonly, manager, pc, deletes,
                   value, val, new_node, parent, cur, is_left_child>>

\* IBRManager::end_op(); remove returns
remove_end(t) ==
    /\ tpc[t] = "rem_end"
    /\ end_op(t)
    /\ tpc' = [tpc EXCEPT ![t] = "none"]
    /\ val' = [val EXCEPT ![t] = 0]
    /\ parent' = [parent EXCEPT ![t] = NULL]
    /\ cur' = [cur EXCEPT ![t] = NULL]
    /\ is_left_child' = [is_left_child EXCEPT ![t] = FALSE]
    /\ UNCHANGED <<value, left, right, new_node>>

\* ------------------------------------------------- NatarajanTree (ibrNatarajan.cpp)
\* The tree of ibrNatarajan.cpp over the same IBRManager.  One step is one atomic
\* access of a link (load or compare_and_set) or one manager call; the reads of
\* Node::key are folded into the step of the load that follows them.

Keys == 1 .. MaxKey

\* root = new Node(std::numeric_limits<int>::max())
KeyOf(n) == IF n = root THEN MaxKey + 1 ELSE key[n]

\* retire_node handed a node that was retired before: the same three statements
retire_node_again(t, r) ==
    /\ pc[t] = "op"
    /\ nstate[r] \in {"retired", "retired_twice"}
    /\ retire_epoch' = [retire_epoch EXCEPT ![r] = global_epoch]
    /\ retired_nodes' = [retired_nodes EXCEPT ![t] = Append(@, r)]
    /\ nstate' = [nstate EXCEPT ![r] = "retired_twice"]
    /\ it' = [it EXCEPT ![t] = 1]
    /\ pc' = [pc EXCEPT ![t] = "clean_up"]
    /\ UNCHANGED <<honly, sonly, global_epoch, local_epoch, birth_epoch, starts, deletes>>

\* The locals of insert / remove at the top of the while (true) loop (c = root) and
\* after the return (c = NULL).
LoopTop(t, c) ==
    /\ parent' = [parent EXCEPT ![t] = NULL]
    /\ cur' = [cur EXCEPT ![t] = c]
    /\ new_node' = [new_node EXCEPT ![t] = NULL]
    /\ target' = [target EXCEPT ![t] = NULL]
    /\ left_loc' = [left_loc EXCEPT ![t] = NULL]
    /\ right_loc' = [right_loc EXCEPT ![t] = NULL]
    /\ successor' = [successor EXCEPT ![t] = NULL]
    /\ successor_parent' = [successor_parent EXCEPT ![t] = NULL]
    /\ child' = [child EXCEPT ![t] = NULL]

\* insert(key): start_op(); parent = nullptr; current = root
nt_insert_start(t, v) ==
    /\ tpc[t] = "none"
    /\ start_op(t)
    /\ tpc' = [tpc EXCEPT ![t] = "ni_loop"]
    /\ val' = [val EXCEPT ![t] = v]
    /\ LoopTop(t, root)
    /\ UNCHANGED <<value, left, right, is_left_child, key>>

\* insert's search loop, one pass: parent = current; current = current->left / right
nt_insert_loop(t) ==
    /\ tpc[t] = "ni_loop"
    /\ cur[t] # NULL
    /\ val[t] # KeyOf(cur[t])
    /\ parent' = [parent EXCEPT ![t] = cur[t]]
    /\ cur' = [cur EXCEPT ![t] = IF val[t] < KeyOf(cur[t]) THEN left[cur[t]] ELSE right[cur[t]]]
    /\ UNCHANGED <<honly, sonly, manager, pc, deletes, value, left, right, tpc, val, new_node,
                   is_left_child, key, target, left_loc, right_loc, successor,
                   successor_parent, child>>

\* the key is in the tree: end_op(); return
nt_insert_exists(t) ==
    /\ tpc[t] = "ni_loop"
    /\ cur[t] # NULL
    /\ val[t] = KeyOf(cur[t])
    /\ end_op(t)
    /\ tpc' = [tpc EXCEPT ![t] = "none"]
    /\ val' = [val EXCEPT ![t] = 0]
    /\ LoopTop(t, NULL)
    /\ UNCHANGED <<value, left, right, is_left_child, key>>

\* new_node = new Node(key); new_node->birth_epoch = global_epoch.load()
nt_insert_alloc(t) ==
    /\ tpc[t] = "ni_loop"
    /\ cur[t] = NULL
    /\ allocate_node(t)
    /\ LET r == CHOOSE x \in Unallocated : \A q \in Unallocated : x <= q IN
        /\ new_node' = [new_node EXCEPT ![t] = r]
        /\ key' = [key EXCEPT ![r] = val[t]]
    /\ tpc' = [tpc EXCEPT ![t] = "ni_cas"]
    /\ UNCHANGED <<value, left, right, val, parent, cur, is_left_child, target, left_loc,
                   right_loc, successor, successor_parent, child>>

\* the link insert's compare_and_set works on: key < parent->key picks parent->left
InsertLink(t) == IF val[t] < KeyOf(parent[t]) THEN left[parent[t]] ELSE right[parent[t]]

\* compare_and_set(parent->left / right, nullptr, new_node) succeeds
nt_insert_cas_ok(t) ==
    /\ tpc[t] = "ni_cas"
    /\ InsertLink(t) = NULL
    /\ IF val[t] < KeyOf(parent[t])
         THEN /\ left' = [left EXCEPT ![parent[t]] = new_node[t]]
              /\ UNCHANGED right
         ELSE /\ right' = [right EXCEPT ![parent[t]] = new_node[t]]
              /\ UNCHANGED left
    /\ tpc' = [tpc EXCEPT ![t] = "ni_end"]
    /\ UNCHANGED <<honly, sonly, manager, pc, deletes, value, val, new_node, parent, cur,
                   is_left_child, nat>>

\* compare_and_set fails; delete new_node
nt_insert_cas_fail(t) ==
    /\ tpc[t] = "ni_cas"
    /\ InsertLink(t) # NULL
    /\ deletes' = Deleted(deletes, new_node[t])
    /\ new_node' = [new_node EXCEPT ![t] = NULL]
    /\ tpc' = [tpc EXCEPT ![t] = "ni_retry"]
    /\ UNCHANGED <<honly, sonly, manager, pc, value, left, right, val, parent, cur,
                   is_left_child, nat>>

\* end_op() at the bottom of the while (true) loop
nt_insert_retry(t) ==
    /\ tpc[t] = "ni_retry"
    /\ end_op(t)
    /\ tpc' = [tpc EXCEPT ![t] = "ni_restart"]
    /\ UNCHANGED <<value, left, right, val, new_node, parent, cur, is_left_child, nat>>

\* the loop starts again: start_op(); parent = nullptr; current = root
nt_insert_restart(t) ==
    /\ tpc[t] = "ni_restart"
    /\ start_op(t)
    /\ tpc' = [tpc EXCEPT ![t] = "ni_loop"]
    /\ LoopTop(t, root)
    /\ UNCHANGED <<value, left, right, val, is_left_child, key>>

\* end_op(); return after the successful compare_and_set
nt_insert_end(t) ==
    /\ tpc[t] = "ni_end"
    /\ end_op(t)
    /\ tpc' = [tpc EXCEPT ![t] = "none"]
    /\ val' = [val EXCEPT ![t] = 0]
    /\ LoopTop(t, NULL)
    /\ UNCHANGED <<value, left, right, is_left_child, key>>

\* remove(key): start_op(); parent = nullptr; current = root; target = nullptr
nt_remove_start(t, v) ==
    /\ tpc[t] = "none"
    /\ start_op(t)
    /\ tpc' = [tpc EXCEPT ![t] = "nr_loop"]
    /\ val' = [val EXCEPT ![t] = v]
    /\ LoopTop(t, root)
    /\ UNCHANGED <<value, left, right, is_left_child, key>>

\* remove's search loop, one pass that moves down
nt_remove_loop(t) ==
    /\ tpc[t] = "nr_loop"
    /\ cur[t] # NULL
    /\ val[t] # KeyOf(cur[t])
    /\ parent' = [parent EXCEPT ![t] = cur[t]]
    /\ cur' = [cur EXCEPT ![t] = IF val[t] < KeyOf(cur[t]) THEN left[cur[t]] ELSE right[cur[t]]]
    /\ UNCHANGED <<honly, sonly, manager, pc, deletes, value, left, right, tpc, val, new_node,
                   is_left_child, key, target, left_loc, right_loc, successor,
                   successor_parent, child>>

\* the loop ends with target null: end_op(); return false
nt_remove_not_found(t) ==
    /\ tpc[t] = "nr_loop"
    /\ cur[t] = NULL
    /\ end_op(t)
    /\ tpc' = [tpc EXCEPT ![t] = "none"]
    /\ val' = [val EXCEPT ![t] = 0]
    /\ LoopTop(t, NULL)
    /\ UNCHANGED <<value, left, right, is_left_child, key>>

\* target = current; break; left = target->left.load()
nt_remove_found(t) ==
    /\ tpc[t] = "nr_loop"
    /\ cur[t] # NULL
    /\ val[t] = KeyOf(cur[t])
    /\ target' = [target EXCEPT ![t] = cur[t]]
    /\ left_loc' = [left_loc EXCEPT ![t] = left[cur[t]]]
    /\ tpc' = [tpc EXCEPT ![t] = "nr_right"]
    /\ UNCHANGED <<honly, sonly, manager, pc, deletes, value, left, right, val, new_node,
                   parent, cur, is_left_child, key, right_loc, successor, successor_parent,
                   child>>

\* right = target->right.load(); if (left && right)
nt_remove_right(t) ==
    /\ tpc[t] = "nr_right"
    /\ right_loc' = [right_loc EXCEPT ![t] = right[target[t]]]
    /\ tpc' = [tpc EXCEPT ![t] = IF left_loc[t] # NULL /\ right[target[t]] # NULL
                                   THEN "nr_succ" ELSE "nr_child"]
    /\ UNCHANGED <<honly, sonly, manager, pc, deletes, value, left, right, val, new_node,
                   parent, cur, is_left_child, key, target, left_loc, successor,
                   successor_parent, child>>

\* successor_parent = target; successor = target->right.load()
nt_remove_succ(t) ==
    /\ tpc[t] = "nr_succ"
    /\ successor_parent' = [successor_parent EXCEPT ![t] = target[t]]
    /\ successor' = [successor EXCEPT ![t] = right[target[t]]]
    /\ tpc' = [tpc EXCEPT ![t] = "nr_succ_test"]
    /\ UNCHANGED <<honly, sonly, manager, pc, deletes, value, left, right, val, new_node,
                   parent, cur, is_left_child, key, target, left_loc, right_loc, child>>

\* while (successor->left.load()) { successor_parent = successor;
\*                                   successor = successor->left.load(); }
\* One step is one of the two loads: the test at "nr_succ_test", the load of
\* the body at "nr_succ_step".  With successor null the test is a null dereference
\* and the process ends there: the thread takes no further step.  (A successor
\* with a left child needs four nodes below the root; with NumRecords = 3 the
\* walk ends at its first test.)
nt_remove_succ_loop(t) ==
    /\ tpc[t] \in {"nr_succ_test", "nr_succ_step"}
    /\ successor[t] # NULL
    /\ IF tpc[t] = "nr_succ_test"
         THEN /\ tpc' = [tpc EXCEPT ![t] = IF left[successor[t]] # NULL THEN "nr_succ_step"
                                                                      ELSE "nr_copy"]
              /\ UNCHANGED <<successor, successor_parent>>
         ELSE /\ successor_parent' = [successor_parent EXCEPT ![t] = successor[t]]
              /\ successor' = [successor EXCEPT ![t] = left[successor[t]]]
              /\ tpc' = [tpc EXCEPT ![t] = "nr_succ_test"]
    /\ UNCHANGED <<honly, sonly, manager, pc, deletes, value, left, right, val, new_node,
                   parent, cur, is_left_child, key, target, left_loc, right_loc, child>>

\* target->key = successor->key; parent = successor_parent; target = successor
nt_remove_copy(t) ==
    /\ tpc[t] = "nr_copy"
    /\ key' = [key EXCEPT ![target[t]] = KeyOf(successor[t])]
    /\ parent' = [parent EXCEPT ![t] = successor_parent[t]]
    /\ target' = [target EXCEPT ![t] = successor[t]]
    /\ tpc' = [tpc EXCEPT ![t] = "nr_child"]
    /\ UNCHANGED <<honly, sonly, manager, pc, deletes, value, left, right, val, new_node,
                   cur, is_left_child, left_loc, right_loc, successor, successor_parent,
                   child>>

\* child = target->left ? ... : ... : the test of target->left
nt_remove_child_test(t) ==
    /\ tpc[t] = "nr_child"
    /\ tpc' = [tpc EXCEPT ![t] = IF left[target[t]] # NULL THEN "nr_child_left"
                                                              ELSE "nr_child_right"]
    /\ UNCHANGED <<honly, sonly, manager, pc, deletes, value, left, right, val, new_node,
                   parent, cur, is_left_child, nat>>

\* child = target->left.load() or child = target->right.load()
nt_remove_child(t) ==
    /\ tpc[t] \in {"nr_child_left", "nr_child_right"}
    /\ child' = [child EXCEPT ![t] = IF tpc[t] = "nr_child_left" THEN left[target[t]]
                                                                    ELSE right[target[t]]]
    /\ tpc' = [tpc EXCEPT ![t] = "nr_side"]
    /\ UNCHANGED <<honly, sonly, manager, pc, deletes, value, left, right, val, new_node,
                   parent, cur, is_left_child, key, target, left_loc, right_loc, successor,
                   successor_parent>>

\* if (parent->left.load() == target)
nt_remove_side(t) ==
    /\ tpc[t] = "nr_side"
    /\ tpc' = [tpc EXCEPT ![t] = IF left[parent[t]] = target[t] THEN "nr_cas_left"
                                                               ELSE "nr_cas_right"]
    /\ UNCHANGED <<honly, sonly, manager, pc, deletes, value, left, right, val, new_node,
                   parent, cur, is_left_child, nat>>

\* the link remove's compare_and_set works on
RemoveLink(t) == IF tpc[t] = "nr_cas_left" THEN left[parent[t]] ELSE right[parent[t]]

\* compare_and_set(parent->left / right, target, child) succeeds: the node is unlinked
nt_remove_cas_ok(t) ==
    /\ tpc[t] \in {"nr_cas_left", "nr_cas_right"}
    /\ RemoveLink(t) = target[t]
    /\ IF tpc[t] = "nr_cas_left"
         THEN /\ left' = [left EXCEPT ![parent[t]] = child[t]]
              /\ UNCHANGED right
         ELSE /\ right' = [right EXCEPT ![parent[t]] = child[t]]
              /\ UNCHANGED left
    /\ tpc' = [tpc EXCEPT ![t] = "nr_retire"]
    /\ UNCHANGED <<honly, sonly, manager, pc, deletes, value, val, new_node, parent, cur,
                   is_left_child, nat>>

\* compare_and_set fails: the while (true) loop starts again with start_op(),
\* no end_op() in between: local_epoch = global_epoch.load(); parent = nullptr; ...
nt_remove_cas_fail(t) ==
    /\ tpc[t] \in {"nr_cas_left", "nr_cas_right"}
    /\ RemoveLink(t) # target[t]
    /\ local_epoch' = [local_epoch EXCEPT ![t] = global_epoch]
    /\ tpc' = [tpc EXCEPT ![t] = "nr_loop"]
    /\ LoopTop(t, root)
    /\ UNCHANGED <<honly, sonly, global_epoch, retired_nodes, birth_epoch, retire_epoch, it,
                   nstate, starts, pc, deletes, value, left, right, val, is_left_child, key>>

\* IBRManager::retire_node(target)
nt_remove_retire(t) ==
    /\ tpc[t] = "nr_retire"
    /\ retire_node(t, target[t]) \/ retire_node_again(t, target[t])
    /\ tpc' = [tpc EXCEPT ![t] = "nr_end"]
    /\ UNCHANGED <<value, left, right, val, new_node, parent, cur, is_left_child, nat>>

\* IBRManager::end_op(); return true
nt_remove_end(t) ==
    /\ tpc[t] = "nr_end"
    /\ end_op(t)
    /\ tpc' = [tpc EXCEPT ![t] = "none"]
    /\ val' = [val EXCEPT ![t] = 0]
    /\ LoopTop(t, NULL)
    /\ UNCHANGED <<value, left, right, is_left_child, key>>

\* ------------------------------------------------------------ Hyaline-S
\* (HyalineS_SGL.cpp; hyalineS_bonsaiTree.cpp has the same five functions)

\* globalEra{0}; slotRefs(MAX_THREADS) value-initialised; Batch: refCounter{0}, no nodes
SInit ==
    /\ globalEra = 0
    /\ slotRefs = [s \in Slots |-> 0]
    /\ birthEra = [r \in Records |-> 0]
    /\ nodes = [t \in Threads |-> <<>>]
    /\ refCounter = [t \in Threads |-> 0]
    /\ sslot = [t \in Threads |-> NoSlot]
    /\ era = [t \in Threads |-> 0]
    /\ ri = [t \in Threads |-> 0]
    /\ snapEra = [t \in Threads |-> 0]
    /\ derefRes = [t \in Threads |-> NULL]
    /\ allocated = {}
    /\ readers = [t \in Threads |-> {}]
    /\ senters = [t \in Threads |-> 0]

\* A thread is between its enter and its leave.
InS(t) == pc[t] \in {"s_cs", "s_deref_ret", "s_deref_done", "s_retire"}

\* The nodes that are in some batch.
Batched == UNION {{nodes[t][i] : i \in 1 .. Len(nodes[t])} : t \in Threads}

\* void enter(int slot): slotRefs[slot].fetch_add(1)
s_enter(t, s) ==
    /\ pc[t] = "idle"
    /\ SumOver(senters, Threads) < MaxEnters
    /\ \A u \in Threads : u < t => senters[u] > 0
    /\ slotRefs' = [slotRefs EXCEPT ![s] = @ + 1]
    /\ sslot' = [sslot EXCEPT ![t] = s]
    /\ snapEra' = [snapEra EXCEPT ![t] = globalEra]
    /\ senters' = [senters EXCEPT ![t] = @ + 1]
    /\ pc' = [pc EXCEPT ![t] = "s_cs"]
    /\ UNCHANGED <<honly, ionly, deletes, globalEra, birthEra, nodes, refCounter, era, ri,
                   derefRes, allocated, readers>>

\* void leave(int slot): slotRefs[slot].fetch_sub(1)
s_leave(t) ==
    /\ pc[t] = "s_cs"
    /\ slotRefs' = [slotRefs EXCEPT ![sslot[t]] = @ - 1]
    /\ sslot' = [sslot EXCEPT ![t] = NoSlot]
    /\ readers' = [u \in Threads |-> readers[u] \ {t}]
    /\ snapEra' = [snapEra EXCEPT ![t] = 0]
    /\ pc' = [pc EXCEPT ![t] = "idle"]
    /\ UNCHANGED <<honly, ionly, deletes, globalEra, birthEra, nodes, refCounter, era, ri,
                   derefRes, allocated, senters>>

\* deref: int era = globalEra.load()
deref_load_era(t) ==
    /\ pc[t] = "s_cs"
    /\ era' = [era EXCEPT ![t] = globalEra]
    /\ pc' = [pc EXCEPT ![t] = "s_deref_ret"]
    /\ UNCHANGED <<honly, ionly, deletes, globalEra, slotRefs, birthEra, nodes, refCounter, sslot, ri, snapEra, derefRes, allocated, readers, senters>>

\* deref's result: (slotRefs[slot].load() >= era) ? node : nullptr
DerefResult(refs, e, n) == IF refs >= e THEN n ELSE NULL

\* deref: Node* node = *ptr; return (slotRefs[slot].load() >= era) ? node : nullptr
\* The location ptr points to holds null or any node made so far; what it holds
\* is the caller's business, so the read of it is taken together with the load
\* of slotRefs that follows it.
deref_return(t) ==
    /\ pc[t] = "s_deref_ret"
    /\ \E n \in allocated \cup {NULL} :
        derefRes' = [derefRes EXCEPT ![t] = DerefResult(slotRefs[sslot[t]], era[t], n)]
    /\ era' = [era EXCEPT ![t] = 0]
    /\ pc' = [pc EXCEPT ![t] = "s_deref_done"]
    /\ UNCHANGED <<honly, ionly, deletes, globalEra, slotRefs, birthEra, nodes, refCounter, sslot,
                   ri, snapEra, allocated, readers, senters>>

\* The caller has looked at what deref returned and goes on.
deref_done(t) ==
    /\ pc[t] = "s_deref_done"
    /\ derefRes' = [derefRes EXCEPT ![t] = NULL]
    /\ pc' = [pc EXCEPT ![t] = "s_cs"]
    /\ UNCHANGED <<honly, ionly, deletes, globalEra, slotRefs, birthEra, nodes, refCounter, sslot,
                   era, ri, snapEra, allocated, readers, senters>>

\* The node made by the next new Node: nodes are made in order.
NewNode == CHOOSE r \in Records \ allocated : \A q \in Records \ allocated : r <= q

\* new Node(k): Node(int k) : key(k), birthEra(0)
new_Node(t) ==
    /\ pc[t] = "s_cs"
    /\ allocated # Records
    /\ birthEra' = [birthEra EXCEPT ![NewNode] = 0]
    /\ allocated' = allocated \cup {NewNode}
    /\ UNCHANGED <<honly, ionly, pc, deletes, globalEra, slotRefs, nodes, refCounter, sslot, era, ri, snapEra, derefRes, readers, senters>>

\* The caller fills its batch before retire(batch): batch.nodes.push_back(n),
\* the nodes going into batches in the order in which they were made.
batch_push(t) ==
    /\ pc[t] = "s_cs"
    /\ ri[t] = 0
    /\ allocated \ Batched # {}
    /\ LET n == CHOOSE m \in allocated \ Batched : \A q \in allocated \ Batched : m <= q
       IN  nodes' = [nodes EXCEPT ![t] = Append(@, n)]
    /\ UNCHANGED <<honly, ionly, pc, deletes, globalEra, slotRefs, birthEra, refCounter, sslot,
                   era, ri, snapEra, derefRes, allocated, readers, senters>>

\* The call retire(batch), once per batch.
s_retire_call(t) ==
    /\ pc[t] = "s_cs"
    /\ ri[t] = 0
    /\ nodes[t] # <<>>
    /\ ri' = [ri EXCEPT ![t] = 1]
    /\ readers' = [readers EXCEPT ![t] = {u \in Threads \ {t} : InS(u)}]
    /\ pc' = [pc EXCEPT ![t] = "s_retire"]
    /\ UNCHANGED <<honly, ionly, deletes, globalEra, slotRefs, birthEra, nodes, refCounter, sslot,
                   era, snapEra, derefRes, allocated, senters>>

\* (the test with <= for ==)
RetireDeletesAtOrBelow(ref) == ref <= 0

\* retire's test on the value fetch_sub returned: if (ref == 0) delete node
RetireDeletes(ref) == ref = 0

\* retire, one pass of the loop body:
\*   int ref = batch.refCounter.fetch_sub(1); if (ref == 0) delete node;
s_retire_step(t) ==
    /\ pc[t] = "s_retire"
    /\ ri[t] <= Len(nodes[t])
    /\ refCounter' = [refCounter EXCEPT ![t] = @ - 1]
    /\ deletes' = IF RetireDeletes(refCounter[t]) THEN Deleted(deletes, nodes[t][ri[t]])
                  ELSE deletes
    /\ ri' = [ri EXCEPT ![t] = @ + 1]
    /\ UNCHANGED <<honly, ionly, pc, globalEra, slotRefs, birthEra, nodes, sslot, era,
                   snapEra, derefRes, allocated, readers, senters>>

\* retire: the loop has gone through batch.nodes, retire returns
s_retire_end(t) ==
    /\ pc[t] = "s_retire"
    /\ ri[t] > Len(nodes[t])
    /\ pc' = [pc EXCEPT ![t] = "s_cs"]
    /\ UNCHANGED <<honly, ionly, deletes, globalEra, slotRefs, birthEra, nodes, refCounter, sslot,
                   era, ri, snapEra, derefRes, allocated, readers, senters>>

\* The era clock of the specification's Hyaline-S extension ("a monotonically
\* increasing epoch"): globalEra.fetch_add(1).  No file of the repository has it.
advance_era ==
    /\ globalEra < MaxEra
    /\ globalEra' = globalEra + 1
    /\ UNCHANGED <<honly, ionly, pc, deletes, slotRefs, birthEra, nodes, refCounter, sslot, era, ri, snapEra, derefRes, allocated, readers, senters>>

\* The stamping allocator of the specification ("stamped on allocation"): a new
\* node whose birthEra is the era at the time.  No file of the repository has it.
new_Node_stamped(t) ==
    /\ pc[t] = "s_cs"
    /\ allocated # Records
    /\ birthEra' = [birthEra EXCEPT ![NewNode] = globalEra]
    /\ allocated' = allocated \cup {NewNode}
    /\ UNCHANGED <<honly, ionly, pc, deletes, globalEra, slotRefs, nodes, refCounter, sslot, era, ri, snapEra, derefRes, readers, senters>>

\* ---------------------------------------------- slot ids out of range
\* (HyalineSGL.cpp: Slot& slot = slots[slotId], an unchecked index of a vector;
\* sgl.cpp: global_refs[slot] and head[slot], unchecked indices of arrays)

\* Slot ids outside [0, slotCount).
OutOfRange == {0 - 1, NumSlots}

\* No function tests its slot id.  An index outside the vector is undefined
\* behaviour; what a build can make of it is one of: the process dies at the
\* access (a trap, or a checked build of the library) with nothing changed; the
\* access lands on memory that is no slot's, the call returns and nothing of
\* the engine has changed; the access lands on a word that is a slot's, and
\* the call's read-modify-write changes it.  One such call is followed in a
\* run, made while no other call is in progress, and the run is followed up to
\* the end of that call.
NoStrayCall == \A u \in Threads : pc[u] \in {"idle", "cs"}

\* enter(slotId) with slotId out of range: slots[slotId].refCount.fetch_add(1)
enter_out_of_range(t, id) ==
    /\ pc[t] = "idle"
    /\ id \in OutOfRange
    /\ NoStrayCall
    /\ entersOn # [s \in Slots |-> 0]
    /\ \/ /\ pc' = [u \in Threads |-> "aborted"]
          /\ UNCHANGED refCount
       \/ /\ pc' = [pc EXCEPT ![t] = "astray"]
          /\ UNCHANGED refCount
       \/ /\ pc' = [pc EXCEPT ![t] = "astray"]
          /\ \E s \in Slots : refCount' = FetchAdd(refCount, s)
    /\ UNCHANGED <<ionly, sonly, mainv, engine, head, next, nodeRef, deletes, slot, handle, lhead, current,
                   prevHead, batchHead, retSlot, guards, users, sameSlot, entersOn>>

\* leave(slotId, handle) with slotId out of range: slots[slotId].refCount.fetch_sub(1)
leave_out_of_range(t, id) ==
    /\ pc[t] = "cs"
    /\ id \in OutOfRange
    /\ NoStrayCall
    /\ guards' = [r \in Records |-> guards[r] \ {t}]
    /\ \/ /\ pc' = [u \in Threads |-> "aborted"]
          /\ UNCHANGED refCount
       \/ /\ pc' = [pc EXCEPT ![t] = "astray"]
          /\ UNCHANGED refCount
       \/ /\ pc' = [pc EXCEPT ![t] = "astray"]
          /\ \E s \in Slots : refCount' = FetchSub(refCount, s)
    /\ UNCHANGED <<ionly, sonly, mainv, engine, head, next, nodeRef, deletes, slot, handle, lhead, current,
                   prevHead, batchHead, retSlot, users, sameSlot, entersOn>>

\* retire(batchHead, slotId) with slotId out of range:
\*   *batchHead = slots[slotId].head.load(); slots[slotId].head.compare_exchange_weak(..)
retire_out_of_range(t, id) ==
    /\ pc[t] = "cs"
    /\ id \in OutOfRange
    /\ NoStrayCall
    /\ Fresh # {}
    /\ \/ /\ pc' = [u \in Threads |-> "aborted"]
          /\ UNCHANGED <<head, next>>
       \/ /\ pc' = [pc EXCEPT ![t] = "astray"]
          /\ UNCHANGED <<head, next>>
       \/ /\ pc' = [pc EXCEPT ![t] = "astray"]
          /\ \E s \in Slots :
              /\ next' = [next EXCEPT ![NextFresh] = RetireLink(NextFresh, head[s])]
              /\ head' = [head EXCEPT ![s] = NextFresh]
    /\ UNCHANGED <<ionly, sonly, mainv, engine, refCount, nodeRef, deletes, slot, handle, lhead, current,
                   prevHead, batchHead, retSlot, guards, users, sameSlot, entersOn>>

\* ------------------------------------------------------------- teardown

\* The Hyaline object goes out of scope with no thread inside a call or a
\* critical section.  The class declares no destructor: the implicit one
\* destroys the vector of Slots, whose members are two atomics, and runs no
\* other code; the records still linked from a head are not touched.
destroy_Hyaline ==
    /\ \A t \in Threads : pc[t] = "idle"
    /\ entersOn # [s \in Slots |-> 0]
    /\ pc' = [t \in Threads |-> "done"]
    /\ UNCHANGED <<honly, ionly, sonly, deletes>>

\* A thread of the IBR harness returns from its thread function: its
\* thread_local std::list<Node*> retired_nodes is destroyed, which frees the
\* list's own cells and not the Nodes they point to.
thread_exit(t) ==
    /\ pc[t] = "idle"
    /\ starts[t] > 0
    /\ retired_nodes' = [retired_nodes EXCEPT ![t] = <<>>]
    /\ pc' = [pc EXCEPT ![t] = "done"]
    /\ UNCHANGED <<honly, sonly, global_epoch, local_epoch, birth_epoch, retire_epoch, it, nstate,
                   starts, tree, deletes>>

\* ------------------------------------------------------- specifications

\* The simple engine, HyalineSGL.cpp.
Init == HyInit /\ IbrInit /\ SInit /\ engine = "HyalineSGL"

Next ==
    \E t \in Threads :
        \/ \E s \in Slots : enter_fetch_add(t, s)
        \/ enter_load(t)
        \/ \E s \in Slots : retire_call(t, s)
        \/ retire_load(t)
        \/ retire_cas_ok(t)
        \/ retire_cas_fail(t)
        \/ leave_load(t)
        \/ leave_fetch_sub(t)
        \/ traverse_load(t)
        \/ traverse_step(t)
        \/ traverse_check(t)
        \/ traverse_reset(t)

Spec == Init /\ [][Next]_vars

\* The simple engine or the per-node refCount engine, with clients that pass
\* any pointer to leave as the handle; all calls are on slot 0.
InitAnyHandle == HyInit /\ IbrInit /\ SInit /\ engine \in {"HyalineSGL", "hyaline"}

NextAnyHandle ==
    \E t \in Threads :
        \/ enter_fetch_add(t, 0)
        \/ enter_load(t)
        \/ retire_call(t, 0)
        \/ retire_load(t)
        \/ retire_cas_ok(t)
        \/ retire_cas_fail(t)
        \/ \E h \in Ptr : leave_load_any(t, h)
        \/ leave_fetch_sub(t)
        \/ traverse_load(t)
        \/ engine = "HyalineSGL" /\ traverse_step(t)
        \/ engine = "hyaline" /\ traverse_step_rc(t)
        \/ traverse_check(t)
        \/ traverse_reset(t)

SpecAnyHandle == InitAnyHandle /\ [][NextAnyHandle]_vars

\* The harness of hyaline_bonsai.cpp: workers on their own slots, then main's
\* slot clean-up loop.
InitClean == HyInit /\ IbrInit /\ SInit /\ engine = "hyaline"

NextClean ==
    \/ \E t \in Workers :
        \/ MayRun(t) /\ enter_fetch_add(t, t - 1)
        \/ MayRun(t) /\ retire_call(t, t - 1)
    \/ \E t \in Threads :
        \/ MayRun(t) /\ enter_load(t)
        \/ MayRun(t) /\ retire_load(t)
        \/ MayRun(t) /\ retire_cas_ok(t)
        \/ MayRun(t) /\ retire_cas_fail(t)
        \/ MayRun(t) /\ leave_load(t)
        \/ MayRun(t) /\ leave_fetch_sub(t)
        \/ MayRun(t) /\ traverse_load(t)
        \* the sweep's loop: a slot has one worker and main comes after it, so the
        \* head leave loaded is still the list's head and the body has nothing to do
        \/ MayRun(t) /\ (traverse_step_rc(t) \/ traverse_check(t))
        \/ MayRun(t) /\ traverse_reset(t)
    \/ main_join
    \/ main_enter
    \/ main_break

SpecClean == InitClean /\ [][NextClean]_vars

\* main's own steps, and the harness with main scheduled fairly once it has
\* joined the workers.
MainNext ==
    \/ main_enter
    \/ main_break
    \/ /\ MayRun(MainThread)
       /\ \/ enter_load(MainThread)
          \/ leave_load(MainThread)
          \/ leave_fetch_sub(MainThread)
          \/ traverse_load(MainThread)
          \/ traverse_step_rc(MainThread)
          \/ traverse_check(MainThread)
          \/ traverse_reset(MainThread)

SpecCleanFair == InitClean /\ [][NextClean]_vars /\ WF_vars(MainNext)

\* The per-node refCount engine, hyaline.cpp.
InitRC == HyInit /\ IbrInit /\ SInit /\ engine = "hyaline"

NextRC ==
    \E t \in Threads :
        \/ \E s \in Slots : enter_fetch_add(t, s)
        \/ enter_load(t)
        \/ \E s \in Slots : retire_call(t, s)
        \/ retire_load(t)
        \/ retire_cas_ok(t)
        \/ retire_cas_fail(t)
        \/ leave_load(t)
        \/ leave_fetch_sub(t)
        \/ traverse_load(t)
        \/ traverse_step_rc(t)
        \/ traverse_check(t)
        \/ traverse_reset(t)

SpecRC == InitRC /\ [][NextRC]_vars

\* The snapshot-count engine, sgl.cpp.
InitSnap == HyInit /\ IbrInit /\ SInit /\ engine = "sgl"

NextSnap ==
    \E t \in Threads :
        \/ \E s \in Slots : enter_fetch_add(t, s)
        \/ enter_load(t)
        \/ \E s \in Slots : snap_retire_call(t, s)
        \/ snap_retire_load(t)
        \/ snap_retire_cas_ok(t)
        \/ snap_retire_cas_fail(t)
        \/ snap_leave_load(t)
        \/ snap_leave_sub(t)
        \/ snap_sweep_step(t)
        \/ snap_sweep_end(t)

SpecSnap == InitSnap /\ [][NextSnap]_vars

\* Any one of the three engines, fixed for the run.
InitHy == HyInit /\ IbrInit /\ SInit /\ engine \in {"HyalineSGL", "hyaline", "sgl"}

NextHy ==
    \/ engine = "HyalineSGL" /\ Next
    \/ engine = "hyaline" /\ NextRC
    \/ engine = "sgl" /\ NextSnap

SpecHy == InitHy /\ [][NextHy]_vars

\* Threads that enter and retire and do not leave, so that no sweep runs:
\* the retire of HyalineSGL.cpp (hyaline.cpp) or that of sgl.cpp.
InitRetire == HyInit /\ IbrInit /\ SInit /\ engine \in {"HyalineSGL", "sgl"}

NextRetire ==
    \E t \in Threads :
        \/ \E s \in Slots : enter_fetch_add(t, s)
        \/ enter_load(t)
        \/ engine = "HyalineSGL" /\ \E s \in Slots : retire_call(t, s)
        \/ retire_load(t)
        \/ retire_cas_ok(t)
        \/ retire_cas_fail(t)
        \/ engine = "sgl" /\ \E s \in Slots : snap_retire_call(t, s)
        \/ snap_retire_load(t)
        \/ snap_retire_cas_ok(t)
        \/ snap_retire_cas_fail(t)

SpecRetire == InitRetire /\ [][NextRetire]_vars

\* The IBR manager as the repository has it.
InitIBR == HyInit /\ IbrInit /\ SInit /\ engine = "ibr"

NextIBR ==
    /\ UNCHANGED tree
    /\ \E t \in Threads :
        \/ start_op(t)
        \/ end_op(t)
        \/ allocate_node(t)
        \/ \E r \in Records : retire_node(t, r)
        \/ clean_up_step(t)
        \/ clean_up_end(t)

SpecIBR == InitIBR /\ [][NextIBR]_vars

\* The IBR manager with the global epoch advanced from outside.
NextIBRTick ==
    \/ NextIBR
    \/ advance_epoch

SpecIBRTick == InitIBR /\ [][NextIBRTick]_vars

\* The BonsaiTree of ibr.cpp over its IBR manager: threads call insert and remove.
NextTree ==
    \E t \in Threads :
        \/ (\E v \in Values : insert_start(t, v)) /\ UNCHANGED nat
        \/ insert_alloc(t) /\ UNCHANGED nat
        \/ insert_load(t) /\ UNCHANGED nat
        \/ insert_cas_ok(t) /\ UNCHANGED nat
        \/ insert_cas_fail(t) /\ UNCHANGED nat
        \/ insert_end(t) /\ UNCHANGED nat
        \/ (\E v \in Values : remove_start(t, v)) /\ UNCHANGED nat
        \/ remove_loop(t) /\ UNCHANGED nat
        \/ remove_not_found(t) /\ UNCHANGED nat
        \/ remove_retire(t) /\ UNCHANGED nat
        \/ clean_up_step(t) /\ UNCHANGED tree
        \/ clean_up_end(t) /\ UNCHANGED tree
        \/ remove_unlink(t) /\ UNCHANGED nat
        \/ remove_end(t) /\ UNCHANGED nat

SpecTree == InitIBR /\ [][NextTree]_vars

\* The NatarajanTree of ibrNatarajan.cpp after the first n calls of the sequence
\* insert(2), insert(1), insert(3) have returned: node 1 (key 2) is root->left, node 2
\* (key 1) its left child, node 3 (key 3) its right child.
Built(n) ==
    /\ nstate = [r \in Records |-> IF r <= n THEN "live" ELSE "none"]
    /\ key = [r \in Records |-> IF r > n THEN 0 ELSE IF r = 1 THEN 2 ELSE IF r = 2 THEN 1 ELSE 3]
    /\ left = [x \in TreeNodes |-> IF x = root /\ n >= 1 THEN 1
                                   ELSE IF x = 1 /\ n >= 2 THEN 2 ELSE NULL]
    /\ right = [x \in TreeNodes |-> IF x = 1 /\ n >= 3 THEN 3 ELSE NULL]

\* The threads are between calls; the tree is empty or holds up to three keys.
NatInit ==
    /\ global_epoch = 0
    /\ local_epoch = [t \in Threads |-> Inactive]
    /\ retired_nodes = [t \in Threads |-> <<>>]
    /\ birth_epoch = [r \in Records |-> 0]
    /\ retire_epoch = [r \in Records |-> Inactive]
    /\ it = [t \in Threads |-> 0]
    /\ starts = [t \in Threads |-> 0]
    /\ \E n \in 0 .. NumRecords : Built(n)
    /\ value = [r \in Records |-> 0]
    /\ tpc = [t \in Threads |-> "none"]
    /\ val = [t \in Threads |-> 0]
    /\ new_node = [t \in Threads |-> NULL]
    /\ parent = [t \in Threads |-> NULL]
    /\ cur = [t \in Threads |-> NULL]
    /\ is_left_child = [t \in Threads |-> FALSE]
    /\ target = [t \in Threads |-> NULL]
    /\ left_loc = [t \in Threads |-> NULL]
    /\ right_loc = [t \in Threads |-> NULL]
    /\ successor = [t \in Threads |-> NULL]
    /\ successor_parent = [t \in Threads |-> NULL]
    /\ child = [t \in Threads |-> NULL]

InitNat == HyInit /\ NatInit /\ SInit /\ engine = "ibr"

\* The NatarajanTree over its IBR manager: threads call insert and remove.
NextNat ==
    \E t \in Threads :
        \/ \E v \in Keys : nt_insert_start(t, v)
        \/ nt_insert_loop(t)
        \/ nt_insert_exists(t)
        \/ nt_insert_alloc(t)
        \/ nt_insert_cas_ok(t)
        \/ nt_insert_cas_fail(t)
        \/ nt_insert_retry(t)
        \/ nt_insert_restart(t)
        \/ nt_insert_end(t)
        \/ \E v \in Keys : nt_remove_start(t, v)
        \/ nt_remove_loop(t)
        \/ nt_remove_not_found(t)
        \/ nt_remove_found(t)
        \/ nt_remove_right(t)
        \/ nt_remove_succ(t)
        \/ nt_remove_succ_loop(t)
        \/ nt_remove_copy(t)
        \/ nt_remove_child_test(t)
        \/ nt_remove_child(t)
        \/ nt_remove_side(t)
        \/ nt_remove_cas_ok(t)
        \/ nt_remove_cas_fail(t)
        \/ nt_remove_retire(t)
        \/ clean_up_step(t) /\ UNCHANGED tree
        \/ clean_up_end(t) /\ UNCHANGED tree
        \/ nt_remove_end(t)

SpecNat == InitNat /\ [][NextNat]_vars

\* The Hyaline-S functions, HyalineS_SGL.cpp.
InitS == HyInit /\ IbrInit /\ SInit /\ engine = "HyalineS"

NextS ==
    \E t \in Threads :
        \/ \E s \in Slots : s_enter(t, s)
        \/ s_leave(t)
        \/ deref_load_era(t)
        \/ deref_return(t)
        \/ deref_done(t)
        \/ new_Node(t)
        \/ batch_push(t)
        \/ s_retire_call(t)
        \/ s_retire_step(t)
        \/ s_retire_end(t)

SpecS == InitS /\ [][NextS]_vars

\* Hyaline-S retire(batch) on batches whose refCounter the client has set:
\* Batch is a plain struct with a public refCounter.
BatchInit ==
    /\ globalEra = 0
    /\ slotRefs = [s \in Slots |-> 0]
    /\ birthEra = [r \in Records |-> 0]
    /\ nodes = [t \in Threads |-> <<>>]
    /\ refCounter \in [Threads -> 0 .. MaxRef]
    /\ sslot = [t \in Threads |-> NoSlot]
    /\ era = [t \in Threads |-> 0]
    /\ ri = [t \in Threads |-> 0]
    /\ snapEra = [t \in Threads |-> 0]
    /\ derefRes = [t \in Threads |-> NULL]
    /\ allocated = {}
    /\ readers = [t \in Threads |-> {}]
    /\ senters = [t \in Threads |-> 0]

InitBatch == HyInit /\ IbrInit /\ BatchInit /\ engine = "HyalineS"

NextBatch ==
    \E t \in Threads :
        \/ \E s \in Slots : s_enter(t, s)
        \/ s_leave(t)
        \/ new_Node(t)
        \/ batch_push(t)
        \/ s_retire_call(t)
        \/ s_retire_step(t)
        \/ s_retire_end(t)

SpecBatch == InitBatch /\ [][NextBatch]_vars

\* The readers' side of Hyaline-S (enter, deref, leave) with the era clock and
\* the stamping allocator.
NextSTick ==
    \/ \E t \in Threads :
        \/ \E s \in Slots : s_enter(t, s)
        \/ s_leave(t)
        \/ deref_load_era(t)
        \/ deref_return(t)
        \/ deref_done(t)
        \/ new_Node_stamped(t)
    \/ advance_era

SpecSTick == InitS /\ [][NextSTick]_vars

\* Either engine with its teardown: the simple Hyaline engine and the
\* destruction of the Hyaline object, or the IBR manager and the exit of threads.
InitDown == HyInit /\ IbrInit /\ SInit /\ engine \in {"HyalineSGL", "ibr"}

NextDown ==
    \/ engine = "HyalineSGL" /\ Next
    \/ engine = "HyalineSGL" /\ destroy_Hyaline
    \/ engine = "ibr" /\ NextIBR
    \/ engine = "ibr" /\ \E t \in Threads : thread_exit(t)

SpecDown == InitDown /\ [][NextDown]_vars

\* The simple engine with callers that may pass a slot id out of range.
NextRange ==
    \/ (\A u \in Threads : pc[u] \notin {"astray", "aborted"}) /\ Next
    \/ \E t \in Threads : \E id \in OutOfRange :
        \/ enter_out_of_range(t, id)
        \/ leave_out_of_range(t, id)
        \/ retire_out_of_range(t, id)

SpecRange == Init /\ [][NextRange]_vars

\* Concurrent retires to one slot (slot 0) under a fair scheduler: a thread
\* inside retire goes on taking steps, and compare_exchange_weak does not fail
\* for ever on a head that equals the expected value (its spurious failures do
\* not go on for ever).
NextRetireOne ==
    \E t \in Threads :
        \/ enter_fetch_add(t, 0)
        \/ enter_load(t)
        \/ engine = "HyalineSGL" /\ retire_call(t, 0)
        \/ retire_load(t)
        \/ retire_cas_ok(t)
        \/ retire_cas_fail(t)
        \/ engine = "sgl" /\ snap_retire_call(t, 0)
        \/ snap_retire_load(t)
        \/ snap_retire_cas_ok(t)
        \/ snap_retire_cas_fail(t)

RetireFair ==
    \A t \in Threads :
        /\ WF_vars(retire_load(t) \/ retire_cas_fail(t)
                     \/ snap_retire_load(t) \/ snap_retire_cas_fail(t))
        /\ SF_vars(retire_cas_ok(t) \/ snap_retire_cas_ok(t))

SpecRetireFair == InitRetire /\ [][NextRetireOne]_vars /\ RetireFair

\* =============================================================== claims

Retired == {r \in Records : retSlot[r] # NoSlot}
\* Records whose retire call has returned.
Published == {r \in Retired : \A t \in Threads : batchHead[t] # r}
\* No thread is in the middle of an engine call.
NoCallInProgress == \A t \in Threads : pc[t] \in {"idle", "cs"}
AllIdle == \A t \in Threads : pc[t] = "idle"

\* C1: (HyalineSGL.cpp) no retired record is deleted while a thread (other than
\* the one that retired it), whose enter on the record's slot returned before
\* the record's retire was called, has not yet called leave.
C1_NoDeleteWhileGuarded ==
    \A r \in Records : deletes[r] > 0 => \A u \in guards[r] : slot[u] # retSlot[r]

\* C2: (HyalineSGL.cpp) no record is passed to delete more than once.
C2_DeletedAtMostOnce ==
    \A r \in Records : deletes[r] <= 1

\* C3: (HyalineSGL.cpp) if every retire went to the slot its caller was inside,
\* then whenever all threads have left and every slot's count is 0, every
\* retired record has been destroyed.
C3_NoLeakWhenAllLeft ==
    (sameSlot /\ AllIdle /\ \A s \in Slots : refCount[s] = 0)
        => \A r \in Retired : deletes[r] >= 1

\* C4: (HyalineSGL.cpp) whenever no thread is inside an engine call, each
\* retired record is destroyed or still reachable from its slot's head.
C4_DestroyedOrQueued ==
    NoCallInProgress
        => \A r \in Retired : deletes[r] >= 1 \/ r \in ChainSet(head[retSlot[r]])

\* C9: (HyalineSGL.cpp) at most one thread at a time executes
\* traverseAndReclaim on a given slot.
C9_OneSweeperPerSlot ==
    \A s \in Slots : Cardinality({t \in Threads : Sweeping(t) /\ slot[t] = s}) <= 1

\* C10: (HyalineSGL.cpp) a thread that was the only participant of a slot and
\* has done one enter, k >= 1 retires to the slot and its leave, has destroyed
\* all k records.
C10_SoloLeaveDestroysAll ==
    \A t \in Threads : \A s \in Slots :
        (pc[t] = "idle" /\ users[s] = {t} /\ entersOn[s] = 1)
            => \A r \in Retired : retSlot[r] = s => deletes[r] >= 1

\* The threads counted by a slot: past enter's fetch_add, before leave's fetch_sub.
Counted(s) ==
    {t \in Threads : slot[t] = s /\ pc[t] \in {"enter_load", "cs", "retire_loop", "retire_cas",
                                               "leave_sub", "snap_retire_load",
                                               "snap_retire_cas", "snap_sub"}}

\* C6: (all three engines) each slot's refCount is the number of threads
\* between enter's increment and leave's decrement on the slot, and is never
\* negative.
C6_RefCountCountsThreads ==
    \A s \in Slots : refCount[s] = Cardinality(Counted(s)) /\ refCount[s] >= 0

\* C6 witness: two threads are counted by one slot, after a third has left it.
C6_Witness ==
    \E s \in Slots : refCount[s] = 2 /\ entersOn[s] = 3

\* The published records of slot s are exactly its list, each once.
ListIsPublished(s) ==
    /\ ~Cyclic(head[s], {})
    /\ ChainSet(head[s]) = {r \in Published : retSlot[r] = s}

\* A step that changes a slot's head puts one record in front of the list as it was.
PublishKeepsPrefix ==
    \A s \in Slots :
        head'[s] # head[s] =>
            /\ head'[s] # NULL
            /\ Chain(head[s])' = <<head'[s]>> \o Chain(head[s])

\* C7: (retire of HyalineSGL.cpp and of sgl.cpp, no sweep running) at every
\* moment the records whose retire has returned are exactly the records
\* reachable from their slot's head, each once, and each successful
\* compare_exchange puts its record in front of the records published before.
C7_RetirePublishesInOrder ==
    /\ [](\A s \in Slots : ListIsPublished(s))
    /\ [][PublishKeepsPrefix]_vars

\* C7 witness: three threads have retired to one slot concurrently, one of them
\* after a failed compare_exchange, and all three records are in the list.
C7_Witness ==
    \E s \in Slots :
        /\ Len(Chain(head[s])) = 3
        /\ Cardinality(users[s]) = 3
        /\ \A t \in Threads : pc[t] = "cs"
        /\ Chain(head[s]) # <<3, 2, 1>>

\* C8: (hyaline.cpp) the chain from every slot's head is acyclic, and so is the
\* chain from every record a thread is retiring.
C8_ListsAcyclic ==
    /\ \A s \in Slots : ~Cyclic(head[s], {})
    /\ \A t \in Threads : ~Cyclic(batchHead[t], {})

\* C8 witness: a list of three records, after a sweep has visited records.
C8_Witness ==
    /\ \E s \in Slots : Len(Chain(head[s])) = 3
    /\ \E r \in Records : nodeRef[r] < 0

\* C5: (ibr.cpp, the epoch advanced from outside) a step of clean_up that
\* deletes a node is taken only when every other thread that is inside
\* start_op .. end_op has a local_epoch greater than the node's retire_epoch.
C5_NoDeleteBelowActiveEpoch ==
    [][\A r \in Records : deletes'[r] # deletes[r] =>
          \A t \in Threads :
              (retired_nodes'[t] = retired_nodes[t] /\ local_epoch[t] # Inactive)
                  => local_epoch[t] > retire_epoch[r]]_vars

\* C11: (HyalineSGL.cpp) no record retired to slot s is deleted while a thread
\* that has been inside a critical section on another slot since before the
\* record's retire was called has not yet called leave.
C11_NoDeleteWhileGuardedElsewhere ==
    \A r \in Records : deletes[r] > 0 => \A u \in guards[r] : slot[u] = retSlot[r]

\* C12: (HyalineSGL.cpp) a thread whose decrement in leave returned 1 sweeps
\* the records of its handle's list: when its sweep loop ends, every record
\* that was in the list enter returned to it has been visited (and so, in this
\* engine, deleted).
C12_LastLeaverSweepsHandleList ==
    [][\A t \in Threads :
          (pc[t] = "sweep" /\ pc'[t] # "sweep")
              => \A o \in ChainSet(handle[t]) : deletes[o] > 0]_vars

\* C13: (HyalineS_SGL.cpp, with the era clock and the stamping allocator) a
\* node that deref has returned to a thread has a birthEra no greater than the
\* value globalEra had when the thread entered.
C13_DerefRespectsBirthEra ==
    \A t \in Threads : derefRes[t] # NULL => birthEra[derefRes[t]] <= snapEra[t]

\* C14: (HyalineS_SGL.cpp) a step that deletes a node of a batch is the
\* decrement that brings the batch's refCounter to zero, and is taken when none
\* of the threads that were inside a critical section at the call of retire is
\* still inside it.
C14_BatchFreedByLastDecrement ==
    [][\A t \in Threads : \A i \in 1 .. Len(nodes[t]) :
          deletes'[nodes[t][i]] # deletes[nodes[t][i]]
              => (refCounter'[t] = 0 /\ readers[t] = {})]_vars

\* C15: (ibr.cpp, with or without the external tick) no step of any thread
\* makes global_epoch smaller.
C15_GlobalEpochNeverDecreases ==
    [][global_epoch' >= global_epoch]_vars

\* C15 witness: the epoch has gone up to its largest value while a thread that
\* started at an earlier epoch has retired a node and deleted it.
C15_Witness ==
    /\ global_epoch = MaxEpoch
    /\ \E t \in Threads : pc[t] = "clean_up" /\ local_epoch[t] = 0
    /\ \E r \in Records : deletes[r] = 1

\* C16: (ibr.cpp) a thread's local_epoch is -1 exactly when the thread is
\* outside start_op .. end_op; start_op sets it to the value global_epoch has
\* at that step, and no later step before end_op (retire_node, clean_up, a tick
\* of the epoch) changes it.
C16_LocalEpochStateMachine ==
    /\ [](\A t \in Threads : (pc[t] = "idle") <=> (local_epoch[t] = Inactive))
    /\ [][\A t \in Threads :
            /\ (pc[t] = "idle" /\ pc'[t] # "idle") => local_epoch'[t] = global_epoch
            /\ (pc[t] # "idle" /\ pc'[t] # "idle") => local_epoch'[t] = local_epoch[t]]_vars

\* C16 witness: a thread that started at epoch 1 is still at 1 after it has
\* retired a node and run clean_up while the epoch went on to 3, and another
\* thread has ended an operation.
C16_Witness ==
    /\ global_epoch = 3
    /\ \E t \in Threads :
        /\ pc[t] = "op"
        /\ local_epoch[t] = 1
        /\ \E r \in Records : nstate[r] = "retired" /\ deletes[r] = 1
    /\ \E u \in Threads : pc[u] = "idle" /\ starts[u] > 0

\* C17: (ibr.cpp) the value get_min_active_epoch() returns never goes down
\* from one step to the next, so the values that the passes of a thread's
\* clean_up loop use, pass after pass and call after call, never go down.
C17_MinEpochNonDecreasing ==
    [][get_min_active_epoch' >= get_min_active_epoch]_vars

\* C17 witness: a thread retired (and scanned for) a first node at epoch 0 and
\* a second at epoch 3; its scans have deleted the first and kept the second.
C17_Witness ==
    \E t \in Threads : \E r1, r2 \in Records :
        /\ get_min_active_epoch = 1
        /\ retire_epoch[r1] = 0 /\ deletes[r1] = 1
        /\ retire_epoch[r2] = 3 /\ retired_nodes[t] = <<r2>>
        /\ pc[t] = "op"

\* The records a teardown step finds retired and not yet destroyed: for the
\* Hyaline object all such records, for a thread of IBR those on its list.
Pending(t) ==
    IF engine = "ibr" THEN {retired_nodes[t][i] : i \in 1 .. Len(retired_nodes[t])}
    ELSE {r \in Retired : deletes[r] = 0}

\* C18: (HyalineSGL.cpp, ibr.cpp) the teardown step (the Hyaline object
\* destroyed with no active thread; an IBR thread exiting) destroys every
\* retired record that was not destroyed before.
C18_TeardownDestroysPending ==
    [][\A t \in Threads :
          (pc[t] # "done" /\ pc'[t] = "done")
              => \A r \in Pending(t) : deletes'[r] >= 1]_vars

\* C19: (HyalineSGL.cpp) a call of enter, leave or retire with a slot id out of
\* range changes no slot's refCount or head and ends with the process aborted.
C19_OutOfRangeAborts ==
    [][\A t \in Threads :
          (pc[t] \notin {"astray", "aborted"} /\ pc'[t] \in {"astray", "aborted"})
              => (refCount' = refCount /\ head' = head /\ pc'[t] = "aborted")]_vars

\* A thread is inside retire's loop.
InRetire(t) == pc[t] \in {"retire_loop", "retire_cas", "snap_retire_load", "snap_retire_cas"}

C21_DeleteOnlyInLastLeave ==
    /\ [](\A t \in Threads : pc[t] \in {"sweep_load", "sweep"} => lhead[t] # NULL)
    /\ [][/\ \A t \in Threads :
                (pc[t] = "leave_sub" /\ Sweeping(t)')
                    => (refCount[slot[t]] = 1 /\ lhead[t] # NULL)
          /\ deletes' # deletes
                => \E t \in Threads : /\ pc[t] = "sweep"
                                       /\ deletes' = Deleted(deletes, current[t])]_vars

\* C21 witness: a sweep has deleted a record, while another thread's leave on
\* the same slot saw a count other than 1 and returned without a sweep.
C21_Witness ==
    \E t, u \in Threads :
        /\ pc[t] = "sweep" /\ pc[u] = "idle" /\ u \in users[slot[t]]
        /\ \E r \in Records : deletes[r] = 1

\* A thread is inside leave.
InLeave(t) == pc[t] \in {"leave_sub", "sweep_load", "sweep", "sweep_reset"}

\* C22: (HyalineSGL.cpp) the records of the list a thread's enter returned
\* (from its handle onward) are not deleted by a step of that thread's sweep,
\* and no step of its leave takes one of them out of the list of the slot's
\* head.
C22_LeaveKeepsHandleList ==
    [][\A t \in Threads : InLeave(t) =>
          \A o \in ChainSet(handle[t]) :
              /\ (pc[t] = "sweep" /\ deletes' # deletes /\ pc' = pc
                    /\ deletes' = Deleted(deletes, current[t]))
                     => current[t] # o
              /\ (pc'[t] # pc[t] /\ o \in ChainSet(head[slot[t]]))
                     => o \in ChainSet(head'[slot[t]])]_vars

C24_SnapshotCoversEarlierThreads ==
    \A o \in Published : deletes[o] > 0 =>
        \A u \in Threads :
            ~(InCS(u) /\ slot[u] = retSlot[o] /\ o \notin ChainSet(handle[u]))

\* C25: (hyaline.cpp, sgl.cpp) enter counts the caller on the slot first and
\* loads head second, in a later step, so the handle is the value head has
\* while the caller is counted; a record published on the slot while a thread
\* is inside it with a loaded handle is a new record, not in the list from the
\* handle onward, and the handle is found by following the links from it.
C25_EnterCountsBeforeLoad ==
    [][/\ \A t \in Threads :
            /\ (pc[t] = "idle" /\ pc'[t] # "idle")
                  => /\ pc'[t] = "enter_load"
                     /\ refCount'[slot'[t]] = refCount[slot'[t]] + 1
                     /\ handle'[t] = NULL
            /\ (pc[t] = "enter_load" /\ pc'[t] # "enter_load")
                  => /\ pc'[t] = "cs"
                     /\ refCount' = refCount
                     /\ handle'[t] = head[slot[t]]
       /\ \A s \in Slots : (head'[s] # head[s] /\ head'[s] # NULL) =>
            \A u \in Threads : (InCS(u) /\ slot[u] = s) =>
                /\ head'[s] \notin ChainSet(handle[u])
                /\ handle[u] # NULL => handle[u] \in ChainSet(next'[head'[s]])]_vars

\* C26: (ibr.cpp) the step that retires a node sets the node's retire_epoch to
\* the value global_epoch has at that step and appends the node to the list of
\* one thread, the caller, leaving the other lists alone; and the retire_epoch
\* of a retired node is never below its birth_epoch.
C26_RetireStampsAndAppends ==
    /\ [](\A r \in Records : nstate[r] = "retired" => retire_epoch[r] >= birth_epoch[r])
    /\ [][\A r \in Records : (nstate[r] = "live" /\ nstate'[r] = "retired") =>
            /\ retire_epoch'[r] = global_epoch
            /\ \E t \in Threads :
                /\ pc[t] = "op"
                /\ retired_nodes'[t] = Append(retired_nodes[t], r)
                /\ \A u \in Threads \ {t} : retired_nodes'[u] = retired_nodes[u]]_vars

\* C26 witness: a node born at epoch 1 was retired at epoch 2 and is on the
\* list of a thread that is not the only one with a list.
C26_Witness ==
    \E t, u \in Threads : \E r, q \in Records :
        /\ t # u
        /\ birth_epoch[r] = 1 /\ retire_epoch[r] = 2 /\ nstate[r] = "retired"
        /\ retired_nodes[t] = <<r>>
        /\ retired_nodes[u] = <<q>>

\* C27: (ibr.cpp, ibrSGL.cpp) retire_node advances global_epoch once in every
\* so many of a thread's calls: a thread that has made NumRecords calls of
\* retire_node (all of them still on its list) finds global_epoch above its
\* initial 0, for an increment frequency of at most NumRecords.
C27_RetiresAdvanceEpoch ==
    \A t \in Threads : Len(retired_nodes[t]) = NumRecords => global_epoch > 0

\* The assumption of the heuristic, as a condition on a state: global_epoch has
\* advanced at most twice since the start_op of every thread now active (each
\* advance adds one, so the number of advances is global_epoch - local_epoch).
AtMostTwoAdvances ==
    \A u \in Threads : local_epoch[u] # Inactive => global_epoch - local_epoch[u] <= 2

\* C28: (ibr.cpp, with the external tick) a step of clean_up that deletes a
\* node, taken in a state where no active thread's operation has seen more than
\* two advances of global_epoch, deletes a node whose retire_epoch is below the
\* local_epoch of every active thread.
C28_HeuristicSafeWithinTwoAdvances ==
    [][\A r \in Records :
          (deletes'[r] # deletes[r] /\ AtMostTwoAdvances)
              => \A u \in Threads :
                    local_epoch[u] # Inactive => retire_epoch[r] < local_epoch[u]]_vars

\* C28 witness: a node retired at epoch 0 has been deleted at epoch 3 by a
\* thread still in clean_up, while another thread is active with local_epoch 1,
\* two advances behind, and no active thread is further behind.
C28_Witness ==
    \E t, u \in Threads : \E r \in Records :
        /\ t # u
        /\ pc[t] = "clean_up" /\ pc[u] = "op"
        /\ global_epoch = 3 /\ local_epoch[u] = 1
        /\ retire_epoch[r] = 0 /\ deletes[r] = 1
        /\ AtMostTwoAdvances

\* The places (thread, position) at which record r is on a retired_nodes list.
PlacesOf(r) ==
    {p \in Threads \X (1 .. NumRecords) :
        p[2] <= Len(retired_nodes[p[1]]) /\ retired_nodes[p[1]][p[2]] = r}

RECURSIVE ReachFrom(_)
ReachFrom(S) ==
    LET more == {n \in Records : \E m \in S : left[m] = n \/ right[m] = n} IN
        IF more \subseteq S THEN S ELSE ReachFrom(S \cup more)
ReachableFromRoot == ReachFrom({root})

\* C30: (ibr.cpp, BonsaiTree::remove) at the step that calls retire_node on a
\* node, the node is not reachable from the tree's root.
C30_RetiredAfterUnlink ==
    [][\A r \in Records :
          (nstate[r] = "live" /\ nstate'[r] = "retired") => r \notin ReachableFromRoot]_vars

\* C35: (HyalineSGL.cpp) no record in the list of a slot's head, the head
\* record included, has been deleted.
C35_NoDeletedRecordInList ==
    \A s \in Slots : \A o \in ChainSet(head[s]) : deletes[o] = 0

\* C36: (hyaline.cpp) no step deletes a record: a Node's refCount is 0 when
\* it is retired and is nowhere raised, so no decrement of a sweep returns 1;
\* the count of every record stays at or below 0.
C36_RefCountVariantNeverDeletes ==
    /\ \A r \in Records : deletes[r] = 0
    /\ \A r \in Records : nodeRef[r] <= 0

\* C36 witness: a sweep has visited a record twice over (its count is -2)
\* and the record is not deleted.
C36_Witness ==
    \E r \in Records : nodeRef[r] = 0 - 2 /\ deletes[r] = 0 /\ retSlot[r] # NoSlot

\* C37: (ibr.cpp, without an external tick) global_epoch stays 0; every
\* retired node has retire_epoch 0 and fails the test of clean_up; no node is
\* deleted; and every step leaves each thread's retired_nodes as it was or
\* with nodes added at its end.
C37_EpochStaysZeroNothingDeleted ==
    /\ [](/\ global_epoch = 0
          /\ \A r \in Records : deletes[r] = 0
          /\ \A r \in Records : nstate[r] = "retired"
                => (retire_epoch[r] = 0 /\ ~Reclaimable(r)))
    /\ [][\A t \in Threads :
            /\ Len(retired_nodes'[t]) >= Len(retired_nodes[t])
            /\ SubSeq(retired_nodes'[t], 1, Len(retired_nodes[t])) = retired_nodes[t]]_vars

\* C37 witness: a thread has retired every node, its clean_up has scanned the
\* whole list each time and returned, and all the nodes are still on its list.
C37_Witness ==
    \E t \in Threads :
        /\ pc[t] = "op"
        /\ Len(retired_nodes[t]) = NumRecords
        /\ \A r \in Records : deletes[r] = 0

\* The refCounter of thread t's batch on entry to retire(batch): its value
\* now, plus one for every pass of the loop already made.
EntryRef(t) == refCounter[t] + (IF ri[t] = 0 THEN 0 ELSE ri[t] - 1)

\* C38: (HyalineS_SGL.cpp) retire(batch) on a batch of n nodes with
\* refCounter r >= 0 on entry: every pass takes one from refCounter and nothing
\* else changes it (so r is refCounter plus the passes made); of the nodes
\* passed so far exactly the one at position r (0-based) is deleted, once, and
\* no other node of the batch is; when the loop has ended refCounter is r - n.
C38_RetireDeletesNodeAtEntryCount ==
    /\ [][\A t \in Threads : EntryRef(t)' = EntryRef(t)]_vars
    /\ [](\A t \in Threads :
            /\ \A i \in 1 .. Len(nodes[t]) :
                  deletes[nodes[t][i]] =
                      (IF i < ri[t] /\ i - 1 = EntryRef(t) THEN 1 ELSE 0)
            /\ ri[t] > Len(nodes[t]) => refCounter[t] = EntryRef(t) - Len(nodes[t]))

\* C38 witness: a batch of two nodes entered with refCounter 1 has been gone
\* through and its second node alone is deleted; another thread's batch of one
\* node, entered with the default refCounter 0, has lost that node.
C38_Witness ==
    \E t, u \in Threads :
        /\ t # u
        /\ Len(nodes[t]) = 2 /\ ri[t] = 3 /\ refCounter[t] = 0 - 1
        /\ deletes[nodes[t][1]] = 0 /\ deletes[nodes[t][2]] = 1
        /\ Len(nodes[u]) = 1 /\ ri[u] = 2 /\ refCounter[u] = 0 - 1
        /\ deletes[nodes[u][1]] = 1

\* C40: (sgl.cpp) retire stores in the record the value global_refs[slot] has
\* at its load; a record that is not deleted and whose count is 0 or less (as
\* it is from retire on when global_refs[slot] was 0) is not deleted by the
\* next step and its count stays 0 or less: such a record is never deleted.
C40_ZeroCountRecordNeverDeleted ==
    [][\A r \in Records :
          /\ (retSlot[r] = NoSlot /\ retSlot'[r] # NoSlot)
                => nodeRef'[r] = refCount[retSlot'[r]]
          /\ (retSlot[r] # NoSlot /\ nodeRef[r] <= 0 /\ deletes[r] = 0)
                => (deletes'[r] = 0 /\ nodeRef'[r] <= 0)]_vars

\* C40 witness: a record retired to a slot no thread was inside has been
\* visited by a later leave (its count is -1), every thread has left, and the
\* record is not deleted.
C40_Witness ==
    \E r \in Records :
        /\ r \in Published /\ nodeRef[r] = 0 - 1 /\ deletes[r] = 0
        /\ AllIdle
        /\ \A s \in Slots : refCount[s] = 0

\* C34: (HyalineSGL.cpp, hyaline.cpp) with leave called on any handle, what
\* each step of a leave does to the slot, the records and the thread's place
\* is fixed by the state without the handle: the head loaded is the slot's;
\* the sweep is entered exactly when the decrement returned 1 and that head is
\* not null; the sweep starts at the slot's head and goes on exactly while
\* current is neither null nor that head; the reset depends on the slot's
\* count only; and a record is deleted, or its count lowered, only by a sweep
\* step at current.
C34_LeaveIgnoresHandle ==
    [][/\ \A t \in Threads :
            /\ (pc[t] = "cs" /\ pc'[t] = "leave_sub")
                  => (lhead'[t] = head[slot[t]] /\ refCount' = refCount /\ head' = head)
            /\ (pc[t] = "leave_sub" /\ pc'[t] # "leave_sub")
                  => /\ refCount' = FetchSub(refCount, slot[t])
                     /\ head' = head
                     /\ IF refCount[slot[t]] = 1 /\ lhead[t] # NULL
                          THEN pc'[t] = "sweep_load" /\ lhead'[t] = lhead[t]
                          ELSE pc'[t] = "idle"
            /\ (pc[t] = "sweep_load" /\ pc'[t] # "sweep_load")
                  => (pc'[t] = "sweep" /\ current'[t] = head[slot[t]] /\ lhead'[t] = lhead[t])
            /\ (pc[t] = "sweep" /\ pc'[t] # "sweep")
                  => /\ current[t] = NULL \/ current[t] = lhead[t]
                     /\ refCount' = refCount /\ head' = head
                     /\ IF refCount[slot[t]] = 0 THEN pc'[t] = "sweep_reset" ELSE pc'[t] = "idle"
            /\ (pc[t] = "sweep" /\ pc'[t] = "sweep" /\ current[t] # NULL /\ current[t] # lhead[t])
                  => lhead'[t] = lhead[t]
            /\ (pc[t] = "sweep_reset" /\ pc'[t] # "sweep_reset")
                  => (pc'[t] = "idle" /\ head' = [head EXCEPT ![slot[t]] = NULL]
                        /\ refCount' = refCount)
       /\ (deletes' # deletes \/ nodeRef' # nodeRef) =>
            \E t \in Threads :
                /\ pc[t] = "sweep" /\ current[t] # NULL /\ current[t] # lhead[t]
                /\ \A r \in Records \ {current[t]} :
                      deletes'[r] = deletes[r] /\ nodeRef'[r] = nodeRef[r]
                /\ engine = "HyalineSGL" => deletes' = Deleted(deletes, current[t])]_vars

\* C34 witness: a thread called leave with a handle that is neither what its
\* enter could have returned (the record was retired after it) nor the head it
\* loaded, and its sweep has deleted a record.
C34_Witness ==
    \E t \in Threads : \E r \in Records :
        /\ pc[t] = "sweep" /\ deletes[r] = 1
        /\ handle[t] # NULL /\ handle[t] # lhead[t] /\ handle[t] # r
        /\ deletes[handle[t]] = 0
        /\ current[t] = lhead[t]


\* C31: under any interleaving of NatarajanTree::insert and NatarajanTree::remove
\* calls, no node is passed to IBRManager::retire_node more than once.
C31_RetiredAtMostOnce == \A r \in Records : nstate[r] # "retired_twice"


\* C32: (hyaline_bonsai.cpp) every enter is followed by a leave on the same slot,
\* so once the workers and main's clean-up loop have finished, every slot's
\* refCount is 0.
C32_AllCountsZeroAtEnd == clean_i = NumSlots => \A s \in Slots : refCount[s] = 0

\* C33: (hyaline_bonsai.cpp) once the clean-up loop has left slot s (its enter
\* returned null), every record that was retired to slot s has been destroyed.
C33_CleanedSlotRecordsDestroyed ==
    \A s \in Slots : clean_i > s =>
        \A r \in Records : retSlot[r] = s => deletes[r] >= 1

\* C39: (hyaline_bonsai.cpp) after the workers are joined the clean-up loop makes
\* at most two enter calls on each slot, leaves each slot with a null head, and
\* gets through every slot.
C39_CleanUpTerminates ==
    /\ [](\A s \in Slots : /\ cleanEnters[s] <= 2
                           /\ clean_i > s => head[s] = NULL)
    /\ (clean_i = 0) ~> (clean_i = NumSlots)

\* the loop is over and records were retired to both slots during the run
C39_Witness ==
    /\ clean_i = NumSlots
    /\ \A s \in Slots : \E r \in Records : retSlot[r] = s
    /\ \A s \in Slots : cleanEnters[s] >= 1 /\ head[s] = NULL

====
